---- MODULE Spec2Model ----
(***************************************************************************)
(* The sync pipeline of mainnet-observer (backend/src/lib.rs,              *)
(* collect_statistics) as a state machine: the main thread that plans the  *)
(* heights, the get-blocks task with its rayon fetch pool, the calc-stats  *)
(* coordinator, the analyzer jobs on the global rayon pool, and the        *)
(* batch-insert task, connected by the two bounded sync_channels.          *)
(***************************************************************************)
EXTENDS Integers, Sequences, FiniteSets, Bags, TLC

\* ------------------------------------------------------------ constants

DATABASE_BATCH_SIZE == 100

REORG_SAFETY_MARGIN == 6

STATS_VERSION == 4

\* stats.rs 20: dust threshold of a pay-to-anchor output, in satoshi
P2A_DUST_THRESHOLD == 240

\* mpsc::sync_channel(10): get-blocks -> calc-stats
BLOCK_CHANNEL_CAPACITY == 10

\* mpsc::sync_channel(100): calc-stats -> batch-insert
STAT_CHANNEL_CAPACITY == 100

\* ------------------------------------------------------------ bounds

\* chain_info.blocks is drawn from 0..MaxTip
MaxTip == 8

\* --num-threads is drawn from 1..MaxFetchThreads
MaxFetchThreads == 2

\* the global rayon pool, which runs the analyzer jobs, has 1..MaxAnalyzers
\* threads (rayon's default: one per CPU)
MaxAnalyzers == 2

\* --start-height is absent or drawn from 1..MaxStart
MaxStart == 2

\* plan size of the single-fetcher run of SpecLong
LongPlan == 13

\* plan size of the run of SpecWriter
MaxBundles == 201

\* FeerateStats: a block holds the coinbase and up to MaxFeeTxs transactions
MaxFeeTxs == 2

\* InputStats: the transactions after the coinbase have up to MaxInputs
\* inputs between them
MaxInputs == 2

\* OutputStats: the transactions of a block have up to MaxOutputs outputs
\* between them
MaxOutputs == 2

\* TxStats: a block holds the coinbase, up to MaxProducers transactions that
\* may stage ephemeral dust and at most one transaction spending from them
MaxProducers == 2

\* TxStats: a block of the timelock family holds up to MaxLockTxs
\* transactions, the coinbase among them
MaxLockTxs == 2

\* Stats::from_block: a block of the decoding family holds up to
\* MaxBundleTxs transactions, the coinbase among them
MaxBundleTxs == 2

\* ScriptStats: the input of a block of the signature family carries up to
\* MaxSigs signatures
MaxSigs == 2

\* ------------------------------------------------------------ u64

\* A u64 is kept as four 16-bit limbs, least significant first, so that the
\* wrap of an unsigned subtraction and the reinterpreting cast `as i64` are
\* computed on the bit pattern.
LimbBase == 65536

Limbs == 1..4

\* n as u64, for 0 <= n < LimbBase * LimbBase \div 2
U64(n) == <<n % LimbBase, (n \div LimbBase) % LimbBase, 0, 0>>

\* unsigned comparison a < b
U64Lt(a, b) == \E i \in Limbs : a[i] < b[i] /\ \A j \in (i + 1)..4 : a[j] = b[j]

\* std::cmp::max on u64
U64Max(a, b) == IF U64Lt(a, b) THEN b ELSE a

RECURSIVE U64Borrow(_, _, _)
\* the borrow into limb i of a - b
U64Borrow(a, b, i) ==
    IF i = 1 THEN 0
    ELSE IF a[i - 1] - b[i - 1] - U64Borrow(a, b, i - 1) < 0 THEN 1 ELSE 0

\* a - b modulo 2^64 (what `a - b` yields when overflow checks are off)
U64WrappingSub(a, b) ==
    [i \in Limbs |-> (a[i] - b[i] - U64Borrow(a, b, i)) % LimbBase]

\* the value of a u64 whose two upper limbs are zero
U64Low(a) == a[1] + LimbBase * a[2]

\* `a as i64`: the two's-complement reading of the same 64 bits
AsI64(a) ==
    IF a[4] < LimbBase \div 2
    THEN U64Low(a)
    ELSE 0 - U64Low(U64WrappingSub(U64(0), a))

\* ------------------------------------------------------------ helpers

Max(a, b) == IF a >= b THEN a ELSE b

MinOf(S) == CHOOSE x \in S : \A y \in S : x <= y

MaxOf(S) == CHOOSE x \in S : \A y \in S : y <= x

\* sum of f over the finite set S
RECURSIVE SumOver(_, _)
SumOver(S, f) ==
    IF S = {} THEN 0
    ELSE LET x == CHOOSE y \in S : TRUE IN f[x] + SumOver(S \ {x}, f)

\* the elements of a finite set of integers in ascending order
SortedSeq(S) ==
    [i \in 1..Cardinality(S) |->
        CHOOSE x \in S : Cardinality({y \in S : y < x}) = i - 1]

Range(s) == {s[i] : i \in 1..Len(s)}

\* Option<T>: None is the empty sequence, Some(x) the sequence of x alone
NoneVal == <<>>

Some(x) == <<x>>

\* ------------------------------------------------------------ state

VARIABLES
    node,             \* the node's answer to chain_info: [blocks, initialblockdownload]
    start_height,     \* --start-height: Option<u64>
    num_threads,      \* --num-threads: threads of the fetch pool
    num_analyzers,    \* threads of the global rayon pool
    db,               \* block_stats table: height -> row
    pc_main,          \* position of collect_statistics
    result,           \* what collect_statistics returned ("none": not yet)
    aborted,          \* the process was aborted by a panic on a rayon thread
    abort_cause,
    fetch_height,     \* u64
    heights_to_fetch, \* Vec<i64>, the plan
    todo,             \* heights of the plan no fetch worker has taken yet
    fetcher,          \* the (height, block) pairs held by fetch workers blocked in send
    get_blocks,       \* state of get_blocks_task
    block_chan,       \* queue of the block channel
    calc_stats,       \* state of calc_stats_task
    jobs,             \* closures spawned on the global rayon pool, not yet started
    analyzer,         \* the stats_results held by analyzer threads blocked in send
    stat_chan,        \* queue of the stat channel
    batch_insert,     \* state of batch_insert_task
    insert_result,    \* what batch_insert_task returned
    stat_buffer,
    written,
    \* history (not read by the program)
    store_queried,    \* block_heights_greater_equals_version was called
    fetch_log,        \* bag of the heights block_at_height was called with
    fetch_failed,     \* heights for which block_at_height returned Err
    analyzed,         \* bag of the heights Stats::from_block was called for
    received,         \* heights of the bundles the writer took from the stat channel
    insert_log,       \* the insert_stats calls: [batch, final, ok]
    db0,              \* the store as the run found it
    \* the analysis engine on its own (Stats::from_block of one block)
    stats_block,      \* the decoded block handed to from_block
    stats_state       \* the statistics computed from it so far

vars == <<node, start_height, num_threads, num_analyzers, db, pc_main, result, aborted,
          abort_cause, fetch_height, heights_to_fetch, todo, fetcher,
          get_blocks, block_chan, calc_stats, jobs, analyzer, stat_chan,
          batch_insert, insert_result, stat_buffer, written, store_queried,
          fetch_log, fetch_failed, analyzed, received, insert_log, db0,
          stats_block, stats_state>>

stats_vars == <<stats_block, stats_state>>

\* what no step of a run changes
cfg_vars == <<node, start_height, num_threads, num_analyzers, db0, stats_vars>>

main_vars == <<pc_main, result, fetch_height, heights_to_fetch, store_queried>>

wlog_vars == <<received, insert_log>>

fetch_vars == <<todo, fetcher, get_blocks, fetch_log, fetch_failed>>

calc_vars == <<calc_stats, jobs, analyzer, analyzed>>

abort_vars == <<aborted, abort_cause>>

\* ------------------------------------------------------------ data

\* rest::RestClient::block_at_height(h) on success: the block of height h.
\* Only the height of a block matters to the pipeline.
BlockAtHeight(h) == [height |-> h]

StatsFromBlock_OldVersion(block) ==
    [height |-> block.height, stats_version |-> STATS_VERSION - 1]

\* Stats::from_block on success: the bundle of the block, keyed by the
\* block's height and stamped with STATS_VERSION (BlockStats::from_block).
StatsFromBlock(block) ==
    [height |-> block.height, stats_version |-> STATS_VERSION]

\* a row that an earlier run left in the store
OldRow(h, v) == [height |-> h, stats_version |-> v]

\* db::block_heights_greater_equals_version
HeightsUpToDate(store, v) ==
    {h \in DOMAIN store : store[h].stats_version >= v}

\* db::insert_stats: upsert of every bundle of the batch by height, all or
\* nothing; a later bundle of the same height replaces an earlier one.
InsertStats(store, batch) ==
    LET hs == {batch[i].height : i \in 1..Len(batch)}
        last(h) == CHOOSE i \in 1..Len(batch) :
                      /\ batch[i].height = h
                      /\ \A j \in (i + 1)..Len(batch) : batch[j].height # h
    IN  [h \in DOMAIN store \cup hs |->
            IF h \in hs THEN batch[last(h)] ELSE store[h]]

\* ------------------------------------------------------------ initial states

\* heights that may hold a row when the run starts
OldHeights == 0..(MaxTip - REORG_SAFETY_MARGIN - 1)

\* stores an earlier run may have left: any subset of OldHeights, each row at
\* the previous or at the current stats version
InitStores ==
    UNION {[S -> {STATS_VERSION - 1, STATS_VERSION}] : S \in SUBSET OldHeights}

StoreOf(f) == [h \in DOMAIN f |-> OldRow(h, f[h])]

\* nothing is in flight and nothing has been logged
InitPipeline ==
    /\ result = "none"
    /\ aborted = FALSE
    /\ abort_cause = "none"
    /\ fetcher = {}
    /\ block_chan = <<>>
    /\ jobs = <<>>
    /\ analyzer = {}
    /\ stat_chan = <<>>
    /\ insert_result = "none"
    /\ stat_buffer = <<>>
    /\ written = 0
    /\ fetch_log = EmptyBag
    /\ fetch_failed = {}
    /\ analyzed = EmptyBag
    /\ received = <<>>
    /\ insert_log = <<>>

\* the content of the blocks is left out of the runs of the pipeline
NoAnalysis == stats_block = NoneVal /\ stats_state = NoneVal

\* collect_statistics has been called and no task is spawned
InitRun ==
    /\ pc_main = "start"
    /\ fetch_height = U64(0)
    /\ heights_to_fetch = <<>>
    /\ todo = {}
    /\ get_blocks = "unspawned"
    /\ calc_stats = "unspawned"
    /\ batch_insert = "unspawned"
    /\ store_queried = FALSE
    /\ InitPipeline

Init ==
    /\ NoAnalysis
    /\ node \in [blocks : 0..MaxTip, initialblockdownload : BOOLEAN]
    /\ start_height \in {NoneVal} \cup {Some(n) : n \in 1..MaxStart}
    /\ num_threads \in 1..MaxFetchThreads
    /\ num_analyzers \in 1..MaxAnalyzers
    /\ db \in {StoreOf(f) : f \in InitStores}
    /\ db0 = db
    /\ InitRun

\* ------------------------------------------------------------ main thread

\* a build that skips the IBD check
NodeInIbd_Unchecked == FALSE

\* lib.rs 159: chain_info.initialblockdownload
NodeInIbd == node.initialblockdownload

\* lib.rs 147-162: chain_info() and the IBD check
ChainInfo(ok) ==
    /\ ~aborted
    /\ pc_main = "start"
    /\ IF ~ok
       THEN result' = "REST" /\ pc_main' = "done"
       ELSE IF NodeInIbd
       THEN result' = "IBDNotDone" /\ pc_main' = "done"
       ELSE result' = result /\ pc_main' = "plan"
    /\ UNCHANGED <<cfg_vars, db, fetch_height, heights_to_fetch, store_queried,
                   fetch_vars, block_chan, calc_vars, stat_chan, batch_insert,
                   insert_result, stat_buffer, written, wlog_vars, abort_vars>>

\* lib.rs 168: rest_height - REORG_SAFETY_MARGIN overflows
SubOverflows == U64Lt(U64(node.blocks), U64(REORG_SAFETY_MARGIN))

\* lib.rs 168: std::cmp::max(0, rest_height - REORG_SAFETY_MARGIN), in u64
FetchHeight ==
    U64Max(U64(0), U64WrappingSub(U64(node.blocks), U64(REORG_SAFETY_MARGIN)))

\* lib.rs 180: start_height.unwrap_or(0) as i64
StartOf(sh) == AsI64(U64(IF sh = NoneVal THEN 0 ELSE sh[1]))

\* a plan whose range includes fetch_height itself
PlanOf_Inclusive(sh, fh, store) ==
    {h \in StartOf(sh)..AsI64(fh) :
        h \notin HeightsUpToDate(store, STATS_VERSION)}

\* lib.rs 181-183: (start..fetch_height as i64).filter(not up to date)
PlanOf(sh, fh, store) ==
    {h \in StartOf(sh)..(AsI64(fh) - 1) :
        h \notin HeightsUpToDate(store, STATS_VERSION)}

\* lib.rs 164-325: the plan is computed and the three tasks are spawned.
\* overflow_checks: whether the build panics on integer overflow;
\* query_ok: whether block_heights_greater_equals_version succeeds.
PlanHeights(overflow_checks, query_ok) ==
    /\ ~aborted
    /\ pc_main = "plan"
    /\ IF SubOverflows /\ overflow_checks
       THEN /\ result' = "Panic"
            /\ pc_main' = "done"
            /\ UNCHANGED <<fetch_height, heights_to_fetch, store_queried, todo,
                           get_blocks, calc_stats, batch_insert>>
       ELSE /\ fetch_height' = FetchHeight
            /\ store_queried' = TRUE
            /\ IF ~query_ok
               THEN /\ result' = "DB"
                    /\ pc_main' = "done"
                    /\ UNCHANGED <<heights_to_fetch, todo, get_blocks,
                                   calc_stats, batch_insert>>
               ELSE /\ heights_to_fetch' =
                           SortedSeq(PlanOf(start_height, FetchHeight, db))
                    /\ todo' = PlanOf(start_height, FetchHeight, db)
                    /\ get_blocks' = "running"
                    /\ calc_stats' = "running"
                    /\ batch_insert' = "init"
                    /\ pc_main' = "join_get"
                    /\ result' = result
    /\ UNCHANGED <<cfg_vars, db, fetcher, fetch_log, fetch_failed, block_chan,
                   jobs, analyzer, analyzed, stat_chan, insert_result,
                   stat_buffer, written, wlog_vars, abort_vars>>


\* ------------------------------------------------------------ get-blocks task

NextHeights_AnyOfPlan == Range(heights_to_fetch)

\* The heights a free fetch worker may take next.  par_iter splits the plan
\* among the workers of the pool; a pool of one thread walks it in order.
NextHeights == IF num_threads = 1 THEN {MinOf(todo)} ELSE todo

\* A worker of the fetch pool is free: the pool has num_threads workers, and
\* each worker that is not free holds the one block it is sending.
FetchWorkerFree == Cardinality(fetcher) < num_threads

\* lib.rs 210-218: a free worker calls block_at_height for a height of the
\* plan.  On Err the closure returns Err, which for_each(drop) discards.
FetchBlock(ok) ==
    /\ ~aborted
    /\ get_blocks = "running"
    /\ FetchWorkerFree
    /\ todo # {}
    /\ \E h \in NextHeights :
         /\ todo' = todo \ {h}
         /\ fetch_log' = fetch_log (+) SetToBag({h})
         /\ IF ok
            THEN /\ fetcher' = fetcher \cup
                                  {[height |-> h, block |-> BlockAtHeight(h)]}
                 /\ fetch_failed' = fetch_failed
            ELSE /\ fetcher' = fetcher
                 /\ fetch_failed' = fetch_failed \cup {h}
    /\ UNCHANGED <<cfg_vars, db, main_vars, get_blocks, block_chan, calc_vars,
                   stat_chan, batch_insert, insert_result, stat_buffer, written,
                   wlog_vars, abort_vars>>

\* the block receiver is dropped when calc_stats_task returns
BlockReceiverDropped == calc_stats = "returned"

BlockChanFull_Unbounded == FALSE

\* lib.rs 197: sync_channel(10); send blocks while the channel holds 10
BlockChanFull == Len(block_chan) >= BLOCK_CHANNEL_CAPACITY

\* lib.rs 219-228: block_sender.send((height, block)); blocks while the
\* channel is full, fails (soft exit) when the receiver is gone.
FetchSend(item) ==
    /\ ~aborted
    /\ get_blocks = "running"
    /\ item \in fetcher
    /\ IF BlockReceiverDropped
       THEN block_chan' = block_chan
       ELSE /\ ~BlockChanFull
            /\ block_chan' = Append(block_chan, item)
    /\ fetcher' = fetcher \ {item}
    /\ UNCHANGED <<cfg_vars, db, main_vars, todo, get_blocks, fetch_log,
                   fetch_failed, calc_vars, stat_chan, batch_insert,
                   insert_result, stat_buffer, written, wlog_vars, abort_vars>>

\* lib.rs 230-233: the parallel iterator is exhausted; the task returns
\* Ok(()) whatever the closures returned, and block_sender is dropped.
GetBlocksReturn ==
    /\ ~aborted
    /\ get_blocks = "running"
    /\ todo = {}
    /\ fetcher = {}
    /\ get_blocks' = "returned"
    /\ UNCHANGED <<cfg_vars, db, main_vars, todo, fetcher, fetch_log,
                   fetch_failed, block_chan, calc_vars, stat_chan, batch_insert,
                   insert_result, stat_buffer, written, wlog_vars, abort_vars>>

\* ------------------------------------------------------------ calc-stats task

\* lib.rs 239-266: the coordinator receives a block and spawns its analysis
\* on the global rayon pool; rayon::spawn only queues the closure.
CalcRecv ==
    /\ ~aborted
    /\ calc_stats = "running"
    /\ block_chan # <<>>
    /\ jobs' = Append(jobs, Head(block_chan))
    /\ block_chan' = Tail(block_chan)
    /\ UNCHANGED <<cfg_vars, db, main_vars, fetch_vars, calc_stats, analyzer,
                   analyzed, stat_chan, batch_insert, insert_result, stat_buffer,
                   written, wlog_vars, abort_vars>>

\* a coordinator that stops as soon as it finds the block channel empty
BlockChanDisconnected_OnEmpty == TRUE

\* all block senders are gone: get_blocks_task has returned
BlockChanDisconnected == get_blocks = "returned"

\* lib.rs 239, 268-272: recv() fails once the channel is empty and
\* disconnected; the task returns Ok(()) and drops its own stat_sender.
CalcReturn ==
    /\ ~aborted
    /\ calc_stats = "running"
    /\ block_chan = <<>>
    /\ BlockChanDisconnected
    /\ calc_stats' = "returned"
    /\ UNCHANGED <<cfg_vars, db, main_vars, fetch_vars, block_chan, jobs,
                   analyzer, analyzed, stat_chan, batch_insert, insert_result,
                   stat_buffer, written, wlog_vars, abort_vars>>

\* A thread of the global rayon pool is free: each thread that is not free
\* holds the one stats_result it is sending.
AnalyzerFree == Cardinality(analyzer) < num_analyzers

\* an analyzer that forwards the error of Stats::from_block to the writer
AnalyzeBlock_ForwardsErr(ok) ==
    /\ ~aborted
    /\ AnalyzerFree
    /\ jobs # <<>>
    /\ jobs' = Tail(jobs)
    /\ analyzed' = analyzed (+) SetToBag({Head(jobs).height})
    /\ analyzer' = analyzer \cup
           {[tag |-> IF ok THEN "Ok" ELSE "Err",
             stats |-> StatsFromBlock(Head(jobs).block)]}
    /\ UNCHANGED <<cfg_vars, db, main_vars, fetch_vars, block_chan, calc_stats,
                   stat_chan, batch_insert, insert_result, stat_buffer, written,
                   wlog_vars, abort_vars>>

\* lib.rs 242-256: a free thread of the global pool starts the oldest queued
\* closure and runs Stats::from_block; an Err panics, and a panic in a
\* rayon::spawn closure aborts the process.
AnalyzeBlock(ok) ==
    /\ ~aborted
    /\ AnalyzerFree
    /\ jobs # <<>>
    /\ jobs' = Tail(jobs)
    /\ analyzed' = analyzed (+) SetToBag({Head(jobs).height})
    /\ IF ok
       THEN /\ analyzer' = analyzer \cup
                   {[tag |-> "Ok", stats |-> StatsFromBlock(Head(jobs).block)]}
            /\ UNCHANGED abort_vars
       ELSE /\ analyzer' = analyzer
            /\ aborted' = TRUE
            /\ abort_cause' = "StatsError"
    /\ UNCHANGED <<cfg_vars, db, main_vars, fetch_vars, block_chan, calc_stats,
                   stat_chan, batch_insert, insert_result, stat_buffer, written,
                   wlog_vars>>

\* the stat receiver is dropped when batch_insert_task returns
StatReceiverDropped == batch_insert = "returned"

StatChanFull == Len(stat_chan) >= STAT_CHANNEL_CAPACITY

\* lib.rs 257-265: stat_sender_clone.send(stats_result); blocks while the
\* channel is full, panics when the receiver is gone.
AnalyzerSend(item) ==
    /\ ~aborted
    /\ item \in analyzer
    /\ IF StatReceiverDropped
       THEN /\ aborted' = TRUE
            /\ abort_cause' = "StatsReceiverDropped"
            /\ UNCHANGED <<analyzer, stat_chan>>
       ELSE /\ ~StatChanFull
            /\ stat_chan' = Append(stat_chan, item)
            /\ analyzer' = analyzer \ {item}
            /\ UNCHANGED abort_vars
    /\ UNCHANGED <<cfg_vars, db, main_vars, fetch_vars, block_chan, calc_stats,
                   jobs, analyzed, batch_insert, insert_result, stat_buffer,
                   written, wlog_vars>>


\* ------------------------------------------------------------ batch-insert task

\* a channel that counts as closed once the coordinator has returned, while
\* spawned closures still hold clones of the sender
StatChanDisconnected_NoClones == calc_stats = "returned"

\* every stat sender is gone: calc_stats_task has returned (dropping the
\* original) and no spawned closure, each holding a clone, is left
StatChanDisconnected ==
    /\ calc_stats = "returned"
    /\ jobs = <<>>
    /\ analyzer = {}

HeightsOf(buf) == [i \in 1..Len(buf) |-> buf[i].height]

\* a writer that flushes one bundle late
BatchFull_OneLate(buf) == Len(buf) > DATABASE_BATCH_SIZE

\* lib.rs 300: stat_buffer.len() >= DATABASE_BATCH_SIZE
BatchFull(buf) == Len(buf) >= DATABASE_BATCH_SIZE

\* lib.rs 277-281: the task takes the connection and tunes it
WriterTune(ok) ==
    /\ ~aborted
    /\ batch_insert = "init"
    /\ IF ok
       THEN /\ batch_insert' = "loop"
            /\ UNCHANGED <<insert_result, stat_chan>>
       ELSE /\ batch_insert' = "returned"
            /\ insert_result' = "DB"
            /\ stat_chan' = <<>>
    /\ UNCHANGED <<cfg_vars, db, main_vars, fetch_vars, block_chan, calc_vars,
                   stat_buffer, written, wlog_vars, abort_vars>>

\* lib.rs 284-310: one turn of the loop with a received item: an Err item
\* ends the task, an Ok item is pushed, and a full buffer is inserted
\* (insert_ok: whether insert_stats succeeds) and cleared.
WriterRecv(insert_ok) ==
    /\ ~aborted
    /\ batch_insert = "loop"
    /\ stat_chan # <<>>
    /\ LET item == Head(stat_chan)
           buf  == Append(stat_buffer, item.stats)
       IN  IF item.tag = "Err"
           THEN /\ batch_insert' = "returned"
                /\ insert_result' = "Stats"
                /\ stat_chan' = <<>>
                /\ stat_buffer' = <<>>
                /\ UNCHANGED <<db, written, insert_log, received>>
           ELSE IF ~BatchFull(buf)
           THEN /\ stat_buffer' = buf
                /\ stat_chan' = Tail(stat_chan)
                /\ received' = Append(received, item.stats.height)
                /\ UNCHANGED <<batch_insert, insert_result, db, written, insert_log>>
           ELSE /\ received' = Append(received, item.stats.height)
                /\ insert_log' = Append(insert_log,
                       [batch |-> HeightsOf(buf), final |-> FALSE, ok |-> insert_ok])
                /\ stat_buffer' = <<>>
                /\ IF insert_ok
                   THEN /\ db' = InsertStats(db, buf)
                        /\ written' = written + Len(buf)
                        /\ stat_chan' = Tail(stat_chan)
                        /\ UNCHANGED <<batch_insert, insert_result>>
                   ELSE /\ batch_insert' = "returned"
                        /\ insert_result' = "DB"
                        /\ stat_chan' = <<>>
                        /\ UNCHANGED <<db, written>>
    /\ UNCHANGED <<cfg_vars, main_vars, fetch_vars, block_chan, calc_vars,
                   abort_vars>>

\* lib.rs 293-296, 313-324: recv() fails once the channel is empty and
\* disconnected; a non-empty buffer is inserted as the final batch.
WriterClosed(insert_ok) ==
    /\ ~aborted
    /\ batch_insert = "loop"
    /\ stat_chan = <<>>
    /\ StatChanDisconnected
    /\ batch_insert' = "returned"
    /\ stat_buffer' = <<>>
    /\ IF stat_buffer # <<>>
       THEN /\ insert_log' = Append(insert_log,
                   [batch |-> HeightsOf(stat_buffer), final |-> TRUE, ok |-> insert_ok])
            /\ IF insert_ok
               THEN db' = InsertStats(db, stat_buffer) /\ insert_result' = "Ok"
               ELSE db' = db /\ insert_result' = "DB"
       ELSE /\ insert_result' = "Ok"
            /\ UNCHANGED <<db, insert_log>>
    /\ UNCHANGED <<cfg_vars, main_vars, fetch_vars, block_chan, calc_vars,
                   stat_chan, written, received, abort_vars>>

\* ------------------------------------------------------------ joins

\* lib.rs 327-329: get_blocks_task.join()?; the task only ever returns Ok
JoinGetBlocks ==
    /\ ~aborted
    /\ pc_main = "join_get"
    /\ get_blocks = "returned"
    /\ pc_main' = "join_calc"
    /\ UNCHANGED <<cfg_vars, db, result, fetch_height, heights_to_fetch,
                   store_queried, fetch_vars, block_chan, calc_vars, stat_chan,
                   batch_insert, insert_result, stat_buffer, written, wlog_vars,
                   abort_vars>>

\* lib.rs 330-332: calc_stats_task.join()?; the task only ever returns Ok
JoinCalcStats ==
    /\ ~aborted
    /\ pc_main = "join_calc"
    /\ calc_stats = "returned"
    /\ pc_main' = "join_insert"
    /\ UNCHANGED <<cfg_vars, db, result, fetch_height, heights_to_fetch,
                   store_queried, fetch_vars, block_chan, calc_vars, stat_chan,
                   batch_insert, insert_result, stat_buffer, written, wlog_vars,
                   abort_vars>>

\* lib.rs 333-337: batch_insert_task.join()? and the final Ok(())
JoinBatchInsert ==
    /\ ~aborted
    /\ pc_main = "join_insert"
    /\ batch_insert = "returned"
    /\ pc_main' = "done"
    /\ result' = insert_result
    /\ UNCHANGED <<cfg_vars, db, fetch_height, heights_to_fetch, store_queried,
                   fetch_vars, block_chan, calc_vars, stat_chan, batch_insert,
                   insert_result, stat_buffer, written, wlog_vars, abort_vars>>

\* ------------------------------------------------------------ specifications

Next ==
    \/ \E ok \in BOOLEAN : ChainInfo(ok)
    \/ \E oc \in BOOLEAN, ok \in BOOLEAN : PlanHeights(oc, ok)
    \/ \E ok \in BOOLEAN : FetchBlock(ok)
    \/ \E item \in fetcher : FetchSend(item)
    \/ GetBlocksReturn
    \/ CalcRecv
    \/ CalcReturn
    \/ \E ok \in BOOLEAN : AnalyzeBlock(ok)
    \/ \E item \in analyzer : AnalyzerSend(item)
    \/ \E ok \in BOOLEAN : WriterTune(ok)
    \/ \E ok \in BOOLEAN : WriterRecv(ok)
    \/ \E ok \in BOOLEAN : WriterClosed(ok)
    \/ JoinGetBlocks
    \/ JoinCalcStats
    \/ JoinBatchInsert

\* every run of collect_statistics, with every failure the node, the
\* analysis and the store can produce
Spec == Init /\ [][Next]_vars


\* The runs in which every call to the node, every analysis and every store
\* operation succeeds.
NextOk ==
    \/ ChainInfo(TRUE)
    \/ \E oc \in BOOLEAN : PlanHeights(oc, TRUE)
    \/ FetchBlock(TRUE)
    \/ \E item \in fetcher : FetchSend(item)
    \/ GetBlocksReturn
    \/ CalcRecv
    \/ CalcReturn
    \/ AnalyzeBlock(TRUE)
    \/ \E item \in analyzer : AnalyzerSend(item)
    \/ WriterTune(TRUE)
    \/ WriterRecv(TRUE)
    \/ WriterClosed(TRUE)
    \/ JoinGetBlocks
    \/ JoinCalcStats
    \/ JoinBatchInsert

\* Every thread that can take a step eventually takes one: the main thread,
\* the fetch workers, the coordinator, the analyzer threads and the writer
\* are OS threads, none of which is starved.
Fairness ==
    /\ WF_vars(ChainInfo(TRUE))
    /\ WF_vars(\E oc \in BOOLEAN : PlanHeights(oc, TRUE))
    /\ WF_vars(JoinGetBlocks \/ JoinCalcStats \/ JoinBatchInsert)
    /\ WF_vars(FetchBlock(TRUE) \/ GetBlocksReturn)
    /\ WF_vars(\E item \in fetcher : FetchSend(item))
    /\ WF_vars(CalcRecv \/ CalcReturn)
    /\ WF_vars(AnalyzeBlock(TRUE))
    /\ WF_vars(\E item \in analyzer : AnalyzerSend(item))
    /\ WF_vars(WriterTune(TRUE) \/ WriterRecv(TRUE) \/ WriterClosed(TRUE))

\* the failure-free runs, under fair scheduling
SpecLive == Init /\ [][NextOk]_vars /\ Fairness

\* A long plan on an empty store, fetched by a pool of one worker and
\* analyzed by a pool of one thread.
InitLong ==
    /\ NoAnalysis
    /\ node = [blocks |-> LongPlan + REORG_SAFETY_MARGIN,
               initialblockdownload |-> FALSE]
    /\ start_height = NoneVal
    /\ num_threads = 1
    /\ num_analyzers = 1
    /\ db = <<>>
    /\ db0 = db
    /\ InitRun

\* the failure-free runs over a long plan
SpecLong == InitLong /\ [][NextOk]_vars

\* ------------------------------------------------------------ the writer alone

\* The batch-insert task from its spawn, fed by the stages upstream of it.
\* The writer sees of them only the items that arrive on the stat channel and
\* the moment the channel disconnects, so the path of a block from
\* block_at_height to the stat channel is one step here.
InitWriter ==
    /\ NoAnalysis
    /\ node = [blocks |-> MaxBundles + REORG_SAFETY_MARGIN,
               initialblockdownload |-> FALSE]
    /\ start_height = NoneVal
    /\ num_threads = 1
    /\ num_analyzers = 1
    /\ db = <<>>
    /\ db0 = db
    /\ pc_main = "join_get"
    /\ fetch_height = FetchHeight
    /\ heights_to_fetch = SortedSeq(PlanOf(start_height, FetchHeight, db))
    /\ todo = PlanOf(start_height, FetchHeight, db)
    /\ get_blocks = "running"
    /\ calc_stats = "running"
    /\ batch_insert = "init"
    /\ store_queried = TRUE
    /\ InitPipeline

\* lib.rs 210-257 for one height: the block is fetched, received by the
\* coordinator, analyzed, and its stats_result is sent on the stat channel.
UpstreamSend ==
    /\ ~aborted
    /\ calc_stats = "running"
    /\ todo # {}
    /\ LET h == MinOf(todo)
       IN  /\ todo' = todo \ {h}
           /\ fetch_log' = fetch_log (+) SetToBag({h})
           /\ analyzed' = analyzed (+) SetToBag({h})
           /\ IF StatReceiverDropped
              THEN /\ aborted' = TRUE
                   /\ abort_cause' = "StatsReceiverDropped"
                   /\ stat_chan' = stat_chan
              ELSE /\ ~StatChanFull
                   /\ stat_chan' = Append(stat_chan,
                         [tag |-> "Ok", stats |-> StatsFromBlock(BlockAtHeight(h))])
                   /\ UNCHANGED abort_vars
    /\ UNCHANGED <<cfg_vars, db, main_vars, fetcher, get_blocks, fetch_failed,
                   block_chan, calc_stats, jobs, analyzer, batch_insert,
                   insert_result, stat_buffer, written, wlog_vars>>

\* lib.rs 214-217, 230-233, 268-272: the node delivers no further block;
\* get_blocks_task and calc_stats_task return and every stat sender is gone.
UpstreamClose ==
    /\ ~aborted
    /\ calc_stats = "running"
    /\ todo' = {}
    /\ fetch_log' = fetch_log (+) SetToBag(todo)
    /\ fetch_failed' = fetch_failed \cup todo
    /\ get_blocks' = "returned"
    /\ calc_stats' = "returned"
    /\ UNCHANGED <<cfg_vars, db, main_vars, fetcher, block_chan, jobs, analyzer,
                   analyzed, stat_chan, batch_insert, insert_result, stat_buffer,
                   written, wlog_vars, abort_vars>>

NextWriter ==
    \/ UpstreamSend
    \/ UpstreamClose
    \/ \E ok \in BOOLEAN : WriterTune(ok)
    \/ \E ok \in BOOLEAN : WriterRecv(ok)
    \/ \E ok \in BOOLEAN : WriterClosed(ok)

SpecWriter == InitWriter /\ [][NextWriter]_vars

\* ------------------------------------------------------------ analysis engine

\* Stats::from_block is a function of the decoded block alone: the pipeline
\* stays as collect_statistics finds it while a block is analysed.
AnalysisOnly ==
    /\ node = [blocks |-> 0, initialblockdownload |-> FALSE]
    /\ start_height = NoneVal
    /\ num_threads = 1
    /\ num_analyzers = 1
    /\ db = <<>>
    /\ db0 = db
    /\ InitRun

\* BlockStats.transactions: block.txdata.len()
Transactions(blk) == Len(blk.txdata)

\* ------------------------------------------------------------ FeerateStats

\* lower bounds of the ten feerate bands, in sat/vB (the match arms)
BandBounds == <<1, 2, 5, 10, 25, 50, 100, 250, 500, 1000>>

\* tx.fee.unwrap_or_default().to_sat()
FeeSat(tx) == IF tx.fee = NoneVal THEN 0 ELSE tx.fee[1]

FeerateBelow_Inclusive(tx, b) == FeeSat(tx) <= b * tx.vsize

\* feerate < b, for feerate = fee.to_sat() as f64 / tx.vsize as f64 and a
\* band bound b. Fee and vsize are integers far below 2^53 and b is an
\* integer, so the rounded quotient is below b exactly when fee < b * vsize.
FeerateBelow(tx, b) == FeeSat(tx) < b * tx.vsize

\* the arm of `match feerate` that is taken: 0 for `x if x < 1.0`, k for the
\* range pattern that starts at BandBounds[k], 10 for the wildcard
FeerateArm(tx) ==
    IF FeerateBelow(tx, 1) THEN 0
    ELSE IF \E k \in 1..9 : /\ ~FeerateBelow(tx, BandBounds[k])
                            /\ FeerateBelow(tx, BandBounds[k + 1])
         THEN CHOOSE k \in 1..9 :
                 /\ ~FeerateBelow(tx, BandBounds[k])
                 /\ FeerateBelow(tx, BandBounds[k + 1])
                 /\ \A j \in 1..(k - 1) :
                       ~(/\ ~FeerateBelow(tx, BandBounds[j])
                         /\ FeerateBelow(tx, BandBounds[j + 1]))
         ELSE 10

FeerateScanned_WithCoinbase(blk) == 1..Len(blk.txdata)

\* the transactions the loop does not skip: all but the first
FeerateScanned(blk) == 2..Len(blk.txdata)

\* a floating-point result: NaN, or a number from lo to hi
NaN == [nan |-> TRUE, lo |-> 0, hi |-> 0]

Num(lo, hi) == [nan |-> FALSE, lo |-> lo, hi |-> hi]

\* Data::percentile of the statrs crate: NaN for no samples, else a value
\* between the smallest and the largest sample
Percentile(samples) ==
    IF samples = {} THEN NaN ELSE Num(MinOf(samples), MaxOf(samples))

F64NanAs0_KeepsNan(a) == a

\* stats.rs 1040-1045 f64_nan_as_0, and the casts `as i64` and `as i32` of a
\* float, which give 0 for NaN
F64NanAs0(a) == IF a.nan THEN Num(0, 0) ELSE a

\* the percentiles FeerateStats holds of fees, sizes and feerates
Percentiles == {5, 10, 25, 35, 50, 65, 75, 90, 95}

\* a quotient of two integers, as the floats of the averages and feerates
Rat(num, den) == [num |-> num, den |-> den]

RatAdd(a, b) == Rat(a.num * b.den + b.num * a.den, a.den * b.den)

RatLe(a, b) == a.num * b.den <= b.num * a.den

RECURSIVE RatSum(_, _)
RatSum(S, f) ==
    IF S = {} THEN Rat(0, 1)
    ELSE LET x == CHOOSE y \in S : TRUE IN RatAdd(f[x], RatSum(S \ {x}, f))

\* stats.rs 1100-1104: `match num_tx_without_coinbase { 0 => 0.0, _ => sum /
\* num_tx_without_coinbase }`, for num_tx_without_coinbase = len() - 1
AvgOf(sum, blk) ==
    IF Len(blk.txdata) - 1 = 0 THEN Rat(0, 1)
    ELSE Rat(sum.num, sum.den * (Len(blk.txdata) - 1))

\* stats.rs 1099-1200: the sums, averages, extremes and percentiles of the
\* samples pushed by the loop; the package fields are constants
FeerateSummary(blk) ==
    LET scanned == FeerateScanned(blk)
        fee == [i \in scanned |-> FeeSat(blk.txdata[i])]
        size == [i \in scanned |-> blk.txdata[i].size]
        rate == [i \in scanned |-> Rat(FeeSat(blk.txdata[i]), blk.txdata[i].vsize)]
        fees == {fee[i] : i \in scanned}
        sizes == {size[i] : i \in scanned}
        fee_sum == SumOver(scanned, fee)
        size_sum == SumOver(scanned, size)
        least == IF scanned = {} THEN Rat(0, 1)
                 ELSE rate[CHOOSE i \in scanned :
                              \A j \in scanned : RatLe(rate[i], rate[j])]
        most == IF scanned = {} THEN Rat(0, 1)
                ELSE rate[CHOOSE i \in scanned :
                             \A j \in scanned : RatLe(rate[j], rate[i])]
    IN  [fee_min |-> IF fees = {} THEN 0 ELSE MinOf(fees),
         fee_max |-> IF fees = {} THEN 0 ELSE MaxOf(fees),
         fee_sum |-> fee_sum,
         fee_avg |-> AvgOf(Rat(fee_sum, 1), blk),
         fee_percentile |-> [q \in Percentiles |-> F64NanAs0(Percentile(fees))],
         size_min |-> IF sizes = {} THEN 0 ELSE MinOf(sizes),
         size_max |-> IF sizes = {} THEN 0 ELSE MaxOf(sizes),
         size_sum |-> size_sum,
         size_avg |-> AvgOf(Rat(size_sum, 1), blk),
         size_percentile |-> [q \in Percentiles |-> F64NanAs0(Percentile(sizes))],
         feerate_min |-> least,
         feerate_max |-> most,
         feerate_avg |-> AvgOf(RatSum(scanned, rate), blk),
         feerate_percentile |->
            [q \in Percentiles |->
                F64NanAs0(IF scanned = {} THEN NaN
                          ELSE [nan |-> FALSE, lo |-> least, hi |-> most])],
         feerate_package |-> 0]

\* FeerateStats::from_block: the counters
FeerateStatsFromBlock(blk) ==
    LET scanned == FeerateScanned(blk)
    IN  [summary |-> FeerateSummary(blk),
         zero_fee_tx |->
            Cardinality({i \in scanned : blk.txdata[i].fee = Some(0)}),
         below_1_sat_vbyte |->
            Cardinality({i \in scanned : FeerateArm(blk.txdata[i]) = 0}),
         band |->
            [k \in 1..10 |->
                Cardinality({i \in scanned : FeerateArm(blk.txdata[i]) = k})]]

\* the fees a transaction of virtual size v is given: none (the node has no
\* undo data), zero, and the fees at and just below each band bound
FeesFor(v) ==
    {NoneVal, Some(0)}
        \cup {Some(BandBounds[k] * v) : k \in 1..10}
        \cup {Some(BandBounds[k] * v - 1) : k \in 1..10}

\* the virtual sizes a transaction is given
FeeVsizes == {1, 3}

\* tx.size is taken as twice the virtual size
FeeTxs ==
    UNION {{[fee |-> f, vsize |-> v, size |-> 2 * v] : f \in FeesFor(v)} :
           v \in FeeVsizes}

\* the coinbase carries no fee
FeeCoinbase == [fee |-> NoneVal, vsize |-> 1, size |-> 2]

\* the block of the coinbase and the transactions txs
FeerateBlock(txs) == [txdata |-> <<FeeCoinbase>> \o txs]

InitFeerate ==
    /\ AnalysisOnly
    /\ stats_state = NoneVal
    /\ \E k \in 0..MaxFeeTxs : \E txs \in [1..k -> FeeTxs] :
          stats_block = FeerateBlock(txs)

FeerateFromBlock ==
    /\ stats_state = NoneVal
    /\ stats_state' = Some(FeerateStatsFromBlock(stats_block))
    /\ UNCHANGED <<node, start_height, num_threads, num_analyzers, db, db0,
                   stats_block, main_vars, fetch_vars, block_chan, calc_vars,
                   stat_chan, batch_insert, insert_result, stat_buffer, written,
                   wlog_vars, abort_vars>>

SpecFeerate == InitFeerate /\ [][FeerateFromBlock]_vars

\* ------------------------------------------------------------ InputStats, OutputStats

\* BlockStats.inputs and BlockStats.outputs: the sums of tx.input.len()
\* and of tx.output.len()
BlockInputs(blk) ==
    SumOver(DOMAIN blk.txdata, [i \in DOMAIN blk.txdata |-> Len(blk.txdata[i].input)])

BlockOutputs(blk) ==
    SumOver(DOMAIN blk.txdata, [i \in DOMAIN blk.txdata |-> Len(blk.txdata[i].output)])

\* the positions (transaction, index) of the inputs and outputs of a block
InputsAt(blk) ==
    {p \in (DOMAIN blk.txdata) \X (1..MaxInputs + 1) :
        p[2] <= Len(blk.txdata[p[1]].input)}

OutputsAt(blk) ==
    {p \in (DOMAIN blk.txdata) \X (1..MaxOutputs + 1) :
        p[2] <= Len(blk.txdata[p[1]].output)}

\* the input-type counters of InputStats
InputCounters ==
    {"inputs_p2pk", "inputs_p2pkh", "inputs_nested_p2wpkh", "inputs_p2wpkh",
     "inputs_p2ms", "inputs_p2sh", "inputs_nested_p2wsh", "inputs_p2wsh",
     "inputs_coinbase", "inputs_witness_coinbase", "inputs_p2tr_keypath",
     "inputs_p2tr_scriptpath", "inputs_p2a", "inputs_unknown"}

\* the counter the arm of `match input.in_type` increments
InputCounterOf(in_type) ==
    CASE in_type \in {"P2pk", "P2pkLaxDer"} -> "inputs_p2pk"
      [] in_type \in {"P2pkh", "P2pkhLaxDer"} -> "inputs_p2pkh"
      [] in_type = "P2shP2wpkh" -> "inputs_nested_p2wpkh"
      [] in_type = "P2wpkh" -> "inputs_p2wpkh"
      [] in_type \in {"P2ms", "P2msLaxDer"} -> "inputs_p2ms"
      [] in_type = "P2sh" -> "inputs_p2sh"
      [] in_type = "P2shP2wsh" -> "inputs_nested_p2wsh"
      [] in_type = "P2wsh" -> "inputs_p2wsh"
      [] in_type = "Coinbase" -> "inputs_coinbase"
      [] in_type = "CoinbaseWitness" -> "inputs_witness_coinbase"
      [] in_type = "P2trkp" -> "inputs_p2tr_keypath"
      [] in_type = "P2trsp" -> "inputs_p2tr_scriptpath"
      [] in_type \in {"Unknown", "P2a"} -> "inputs_unknown"

AnchorPass_NoDecrement(c, n) == IF c = "inputs_p2a" THEN n ELSE 0

\* the second loop, for n non-coinbase inputs with an anchor prevout:
\* inputs_p2a += 1 and inputs_unknown -= 1 for each
AnchorPass(c, n) ==
    IF c = "inputs_p2a" THEN n ELSE IF c = "inputs_unknown" THEN 0 - n ELSE 0

\* InputStats::from_block: the input-type counters
InputStatsFromBlock(blk) ==
    LET at == InputsAt(blk)
        inp(p) == blk.txdata[p[1]].input[p[2]]
        anchors == {p \in at : /\ inp(p).data = "NonCoinbase"
                                /\ inp(p).prevout_type = "Anchor"}
    IN  [c \in InputCounters |->
            Cardinality({p \in at : InputCounterOf(inp(p).in_type) = c})
                + AnchorPass(c, Cardinality(anchors))]

\* the output-type counters of OutputStats
OutputCounters ==
    {"outputs_p2pk", "outputs_p2pkh", "outputs_p2wpkh", "outputs_p2ms",
     "outputs_p2sh", "outputs_p2wsh", "outputs_p2tr", "outputs_p2a",
     "outputs_opreturn", "outputs_unknown"}

OutputCounterOf_NoP2a(out_type) ==
    CASE out_type = "P2pk" -> "outputs_p2pk"
      [] out_type = "P2pkh" -> "outputs_p2pkh"
      [] out_type = "P2wpkhV0" -> "outputs_p2wpkh"
      [] out_type = "P2ms" -> "outputs_p2ms"
      [] out_type = "P2sh" -> "outputs_p2sh"
      [] out_type = "P2wshV0" -> "outputs_p2wsh"
      [] out_type = "P2tr" -> "outputs_p2tr"
      [] out_type = "P2a" -> "none"
      [] out_type = "OpReturn" -> "outputs_opreturn"
      [] out_type = "Unknown" -> "outputs_unknown"

\* the counter the arm of `match output.out_type` increments
OutputCounterOf(out_type) ==
    CASE out_type = "P2pk" -> "outputs_p2pk"
      [] out_type = "P2pkh" -> "outputs_p2pkh"
      [] out_type = "P2wpkhV0" -> "outputs_p2wpkh"
      [] out_type = "P2ms" -> "outputs_p2ms"
      [] out_type = "P2sh" -> "outputs_p2sh"
      [] out_type = "P2wshV0" -> "outputs_p2wsh"
      [] out_type = "P2tr" -> "outputs_p2tr"
      [] out_type = "P2a" -> "outputs_p2a"
      [] out_type = "OpReturn" -> "outputs_opreturn"
      [] out_type = "Unknown" -> "outputs_unknown"

\* the arms that also increment an outputs_coinbase_* counter when
\* is_coinbase is set: all but P2a
CoinbaseCounted == OutputCounters \ {"outputs_p2a"}

IsCoinbase_NeverCleared(i) == TRUE

\* the is_coinbase flag of the loop: set for the first transaction, cleared
\* at the end of its iteration
IsCoinbase(i) == i = 1

\* OutputStats::from_block: the output-type counters, outputs_coinbase, the
\* outputs_coinbase_* counters, outputs_p2a_dust and two flavor counters
OutputStatsFromBlock(blk) ==
    LET at == OutputsAt(blk)
        out(p) == blk.txdata[p[1]].output[p[2]]
        cb == {i \in DOMAIN blk.txdata : IsCoinbase(i)}
    IN  [count |->
            [c \in OutputCounters |->
                Cardinality({p \in at : OutputCounterOf(out(p).out_type) = c})],
         outputs_coinbase |->
            SumOver(cb, [i \in cb |-> Len(blk.txdata[i].output)]),
         coinbase_count |->
            [c \in CoinbaseCounted |->
                Cardinality({p \in at : /\ IsCoinbase(p[1])
                                         /\ OutputCounterOf(out(p).out_type) = c})],
         outputs_p2a_dust |->
            Cardinality({p \in at : /\ out(p).out_type = "P2a"
                                     /\ out(p).value < P2A_DUST_THRESHOLD}),
         outputs_opreturn_runestone |->
            Cardinality({p \in at : /\ out(p).out_type = "OpReturn"
                                     /\ out(p).flavor = "Runestone"}),
         outputs_opreturn_coinbase_witness_commitment |->
            Cardinality({p \in at : /\ out(p).out_type = "OpReturn"
                                     /\ out(p).flavor = "WitnessCommitment"
                                     /\ IsCoinbase(p[1])})]

\* the inputs a transaction after the coinbase can have: any type but the
\* coinbase types; an anchor prevout is spent without script or witness, or
\* with a witness that reads as a P2WPKH spend
SpendInputs ==
    {[in_type |-> t, data |-> "NonCoinbase", prevout_type |-> "Other"] :
        t \in {"P2pk", "P2pkLaxDer", "P2pkh", "P2pkhLaxDer", "P2shP2wpkh",
               "P2wpkh", "P2ms", "P2msLaxDer", "P2sh", "P2shP2wsh", "P2wsh",
               "P2trkp", "P2trsp", "Unknown", "P2a"}}
    \cup {[in_type |-> t, data |-> "NonCoinbase", prevout_type |-> "Anchor"] :
              t \in {"Unknown", "P2a", "P2wpkh"}}

\* the input of the coinbase
CoinbaseInputs ==
    {[in_type |-> t, data |-> "Coinbase", prevout_type |-> "Other"] :
        t \in {"Coinbase", "CoinbaseWitness"}}

\* the outputs a transaction can have
TypedOutputs ==
    {[out_type |-> t, value |-> P2A_DUST_THRESHOLD, flavor |-> "None"] :
        t \in {"P2pk", "P2pkh", "P2wpkhV0", "P2ms", "P2sh", "P2wshV0",
               "P2tr", "P2a", "Unknown"}}
    \cup {[out_type |-> "P2a", value |-> P2A_DUST_THRESHOLD - 1, flavor |-> "None"]}
    \cup {[out_type |-> "OpReturn", value |-> 0, flavor |-> f] :
              f \in {"Runestone", "WitnessCommitment", "Unspecified"}}

DefaultInput ==
    [in_type |-> "P2wpkh", data |-> "NonCoinbase", prevout_type |-> "Other"]

DefaultOutput == [out_type |-> "P2wpkhV0", value |-> P2A_DUST_THRESHOLD, flavor |-> "None"]

\* the ways to cut a sequence into consecutive non-empty pieces: a cut after
\* position c for every c of cuts
Pieces(seq, cuts) ==
    LET starts == SortedSeq({1} \cup {c + 1 : c \in cuts})
    IN  [k \in 1..Len(starts) |->
            SubSeq(seq, starts[k],
                   IF k = Len(starts) THEN Len(seq) ELSE starts[k + 1] - 1)]

\* a block whose inputs vary: the coinbase with input cb, and the inputs ins
\* cut into transactions with one output each
InputBlock(cb, ins, cuts) ==
    [txdata |-> <<[input |-> <<cb>>, output |-> <<DefaultOutput>>]>> \o
                (IF ins = <<>> THEN <<>>
                 ELSE LET ps == Pieces(ins, cuts)
                      IN  [k \in DOMAIN ps |->
                              [input |-> ps[k], output |-> <<DefaultOutput>>]])]

\* a block whose outputs vary: the outputs outs cut into transactions, the
\* first of them the coinbase, every later one with one input
OutputBlock(outs, cuts) ==
    LET ps == Pieces(outs, cuts)
    IN  [txdata |->
            [k \in DOMAIN ps |->
                [input |-> <<IF k = 1 THEN CHOOSE cb \in CoinbaseInputs :
                                              cb.in_type = "Coinbase"
                             ELSE DefaultInput>>,
                 output |-> ps[k]]]]

InitTypes ==
    /\ AnalysisOnly
    /\ stats_state = NoneVal
    /\ \/ \E cb \in CoinbaseInputs : \E k \in 0..MaxInputs :
             \E ins \in [1..k -> SpendInputs] : \E cuts \in SUBSET (1..(k - 1)) :
                stats_block = InputBlock(cb, ins, cuts)
       \/ \E k \in 1..MaxOutputs :
             \E outs \in [1..k -> TypedOutputs] : \E cuts \in SUBSET (1..(k - 1)) :
                stats_block = OutputBlock(outs, cuts)

\* Stats::from_block: the block, input and output statistics
TypesFromBlock ==
    /\ stats_state = NoneVal
    /\ stats_state' =
           Some([block |-> [transactions |-> Transactions(stats_block),
                            inputs |-> BlockInputs(stats_block),
                            outputs |-> BlockOutputs(stats_block)],
                 input |-> InputStatsFromBlock(stats_block),
                 output |-> OutputStatsFromBlock(stats_block)])
    /\ UNCHANGED <<node, start_height, num_threads, num_analyzers, db, db0,
                   stats_block, main_vars, fetch_vars, block_chan, calc_vars,
                   stat_chan, batch_insert, insert_result, stat_buffer, written,
                   wlog_vars, abort_vars>>

SpecTypes == InitTypes /\ [][TypesFromBlock]_vars

\* ------------------------------------------------------------ TxStats

\* the inputs the loop looks at: filter_map keeps the NonCoinbase inputs
Outpoint(inp) == <<inp.txid, inp.vout>>

SpendsEphemeralDust_Below1000(tx, taken) ==
    /\ taken
    /\ tx.version = 3
    /\ tx.fee[1] # 0
    /\ tx.vsize < 1000

\* stats.rs 410-416: the value or-ed into tx_spending_ephemeral_dust for
\* one input; taken: take(&(txid, vout)).is_some(). tx.fee.unwrap() is
\* evaluated only after the two conjuncts before it.
SpendsEphemeralDust(tx, taken) ==
    /\ taken
    /\ tx.version = 3
    /\ tx.fee[1] # 0
    /\ tx.vsize <= 1000

TakeOutpoint_Contains(staged, op) == staged

\* stats.rs 411-412: what HashSet::take leaves of
\* ephemeral_dust_outpoints_in_this_block; it runs before the conditions on
\* the transaction are looked at
TakeOutpoint(staged, op) == staged \ {op}

RECURSIVE ScanInputs_NoContains(_, _, _, _)
ScanInputs_NoContains(tx, txids, k, st) ==
    IF k > Len(tx.input) THEN st
    ELSE IF tx.input[k].data # "NonCoinbase"
    THEN ScanInputs_NoContains(tx, txids, k + 1, st)
    ELSE LET op == Outpoint(tx.input[k])
             taken == op \in st.staged
             nxt == [newly |-> st.newly,
                     dust |-> st.dust \/ SpendsEphemeralDust(tx, taken),
                     staged |-> TakeOutpoint(st.staged, op)]
         IN  ScanInputs_NoContains(tx, txids, k + 1, nxt)

\* stats.rs 400-423: the loop over the inputs of tx from input k on.
\* st = [newly, dust, staged]: the two flags and
\* ephemeral_dust_outpoints_in_this_block; take() removes the outpoint
\* whether or not the transaction qualifies, and the loop breaks early.
RECURSIVE ScanInputs(_, _, _, _)
ScanInputs(tx, txids, k, st) ==
    IF k > Len(tx.input) THEN st
    ELSE IF tx.input[k].data # "NonCoinbase"
    THEN ScanInputs(tx, txids, k + 1, st)
    ELSE LET op == Outpoint(tx.input[k])
             taken == op \in st.staged
             nxt == [newly |-> st.newly \/ tx.input[k].txid \in txids,
                     dust |-> st.dust \/ SpendsEphemeralDust(tx, taken),
                     staged |-> TakeOutpoint(st.staged, op)]
         IN  IF (nxt.dust \/ nxt.staged = {}) /\ nxt.newly
             THEN nxt
             ELSE ScanInputs(tx, txids, k + 1, nxt)

StagedOutpoints_AnyNumber(tx) ==
    IF tx.version = 3 /\ tx.fee = Some(0) /\ tx.vsize <= 10000
    THEN {<<tx.txid, tx.output[j].n>> :
             j \in {m \in 1..Len(tx.output) :
                       tx.output[m].value < tx.output[m].minimal_non_dust}}
    ELSE {}

\* stats.rs 434-450: the outpoints tx adds to
\* ephemeral_dust_outpoints_in_this_block
StagedOutpoints(tx) ==
    IF tx.version = 3 /\ tx.fee = Some(0) /\ tx.vsize <= 10000
    THEN LET dust == {j \in 1..Len(tx.output) :
                         tx.output[j].value < tx.output[j].minimal_non_dust}
         IN  IF Cardinality(dust) = 1
             THEN {<<tx.txid, tx.output[j].n>> : j \in dust}
             ELSE {}
    ELSE {}

\* dust threshold of the scriptPubKey of the outputs (minimal_non_dust of a
\* P2WPKH script, in satoshi)
DustLimit == 294

DustOut(n) == [n |-> n, value |-> DustLimit - 1, minimal_non_dust |-> DustLimit]

PlainOut(n) == [n |-> n, value |-> DustLimit, minimal_non_dust |-> DustLimit]

ExternalInput == [data |-> "NonCoinbase", txid |-> 0, vout |-> 0]

\* the shapes of a transaction that may stage: the producer of the rule and
\* its neighbours in every condition
ProducerShapes ==
    {[version |-> 3, fee |-> Some(0), vsize |-> 10000, output |-> o] :
        o \in {<<PlainOut(0), DustOut(1)>>, <<DustOut(0)>>, <<PlainOut(0)>>,
               <<DustOut(0), DustOut(1)>>}}
    \cup {[version |-> a[1], fee |-> Some(a[2]), vsize |-> a[3],
            output |-> <<PlainOut(0), DustOut(1)>>] :
              a \in {<<3, 0, 10001>>, <<2, 0, 10000>>, <<3, 1, 10000>>}}

\* version, fee and vsize of a spending transaction: the consumer of the
\* rule and its neighbours
ConsumerShapes ==
    {<<3, 1, 1000>>, <<3, 1, 1001>>, <<2, 1, 1000>>, <<3, 0, 1000>>}

\* the coinbase: no fee, one input; version 3 and a sub-dust output
DustCoinbase ==
    [txid |-> 1, version |-> 3, fee |-> NoneVal, vsize |-> 1000,
     input |-> <<[data |-> "Coinbase", txid |-> 0, vout |-> 0]>>,
     output |-> <<DustOut(0)>>]

ProducerTx(shape, id) ==
    [txid |-> id, version |-> shape.version, fee |-> shape.fee,
     vsize |-> shape.vsize, input |-> <<ExternalInput>>, output |-> shape.output]

\* what a spending transaction can spend: an outpoint outside the block and
\* the outputs of the producers, each at most once, in this order
Spendable(ps) ==
    {<<0, 0>>} \cup
    UNION {{<<k + 1, ps[k].output[j].n>> : j \in 1..Len(ps[k].output)} :
              k \in DOMAIN ps}

\* the outpoints of S as inputs, in ascending order of (txid, vout)
InputsOf(S) ==
    LET key(op) == 2 * op[1] + op[2]
        keys == SortedSeq({key(op) : op \in S})
    IN  [i \in 1..Len(keys) |->
            LET op == CHOOSE o \in S : key(o) = keys[i]
            IN  [data |-> "NonCoinbase", txid |-> op[1], vout |-> op[2]]]

ConsumerTx(shape, id, S) ==
    [txid |-> id, version |-> shape[1], fee |-> Some(shape[2]), vsize |-> shape[3],
     input |-> InputsOf(S), output |-> <<PlainOut(0)>>]

\* the block of the coinbase, the staging transactions ps and the spending
\* transactions cs
DustBlock(ps, cs) ==
    [txdata |-> <<DustCoinbase>> \o
                [k \in DOMAIN ps |-> ProducerTx(ps[k], k + 1)] \o cs]

\* TxStats::from_block before its loop
InitDust ==
    /\ AnalysisOnly
    /\ stats_state = [i |-> 1,
                      txids_in_this_block |-> {},
                      ephemeral_dust_outpoints_in_this_block |-> {},
                      tx_spending_newly_created_utxos |-> 0,
                      tx_spending_ephemeral_dust |-> 0]
    /\ \E k \in 0..MaxProducers : \E ps \in [1..k -> ProducerShapes] :
          \/ stats_block = DustBlock(ps, <<>>)
          \/ \E c \in ConsumerShapes : \E S \in (SUBSET Spendable(ps)) \ {{}} :
                stats_block = DustBlock(ps, <<ConsumerTx(c, k + 2, S)>>)

\* stats.rs 344-466: one iteration of the loop over block.txdata
ScanTx ==
    /\ stats_state.i <= Len(stats_block.txdata)
    /\ LET tx == stats_block.txdata[stats_state.i]
           r == ScanInputs(tx, stats_state.txids_in_this_block, 1,
                    [newly |-> FALSE, dust |-> FALSE,
                     staged |-> stats_state.ephemeral_dust_outpoints_in_this_block])
       IN  stats_state' =
               [i |-> stats_state.i + 1,
                txids_in_this_block |->
                    stats_state.txids_in_this_block \cup {tx.txid},
                ephemeral_dust_outpoints_in_this_block |->
                    r.staged \cup StagedOutpoints(tx),
                tx_spending_newly_created_utxos |->
                    stats_state.tx_spending_newly_created_utxos
                        + (IF r.newly THEN 1 ELSE 0),
                tx_spending_ephemeral_dust |->
                    stats_state.tx_spending_ephemeral_dust
                        + (IF r.dust THEN 1 ELSE 0)]
    /\ UNCHANGED <<node, start_height, num_threads, num_analyzers, db, db0,
                   stats_block, main_vars, fetch_vars, block_chan, calc_vars,
                   stat_chan, batch_insert, insert_result, stat_buffer, written,
                   wlog_vars, abort_vars>>

SpecDust == InitDust /\ [][ScanTx]_vars

\* ------------------------------------------------------------ InputStats: spends

\* the positions of the inputs the second loop does not skip: `continue`
\* on every input that is not InputData::NonCoinbase
NonCoinbaseAt(blk) ==
    {p \in InputsAt(blk) : blk.txdata[p[1]].input[p[2]].data = "NonCoinbase"}

TxidsInThisBlock_Coinbase(blk) == {blk.txdata[1].txid}

\* stats.rs 666: txids_in_this_block of InputStats, the txids of all the
\* transactions of the block
TxidsInThisBlock(blk) == {blk.txdata[i].txid : i \in DOMAIN blk.txdata}

\* stats.rs 723: is_same_block
IsSameBlock(blk, inp) == inp.txid \in TxidsInThisBlock(blk)

ConfirmationAge_HeightOnly(blk, inp) == blk.height - inp.prevout_height

\* stats.rs 737-741: confirmation_age, a subtraction of two i64
ConfirmationAge(blk, inp) ==
    IF IsSameBlock(blk, inp) THEN 0 ELSE blk.height - inp.prevout_height

\* the thresholds of the four inputs_spending_prev_N_blocks counters
AgeThresholds == {1, 6, 144, 2016}

\* stats.rs 718-755: the second loop of InputStats::from_block
InputSpendsFromBlock(blk) ==
    LET at == NonCoinbaseAt(blk)
        inp(p) == blk.txdata[p[1]].input[p[2]]
    IN  [inputs_spend_in_same_block |->
            Cardinality({p \in at : IsSameBlock(blk, inp(p))}),
         inputs_p2a_dust |->
            Cardinality({p \in at : /\ inp(p).prevout_type = "Anchor"
                                     /\ inp(p).prevout_value < P2A_DUST_THRESHOLD}),
         inputs_spending_prev |->
            [n \in AgeThresholds |->
                Cardinality({p \in at : ConfirmationAge(blk, inp(p)) <= n})]]

\* stats.rs 338, 400-429: the transactions TxStats::from_block counts in
\* tx_spending_newly_created_utxos; txids_in_this_block holds the txids of
\* the transactions before transaction i
SpendingNewlyCreated(blk) ==
    {i \in DOMAIN blk.txdata :
        ScanInputs(blk.txdata[i], {blk.txdata[j].txid : j \in 1..(i - 1)}, 1,
                   [newly |-> FALSE, dust |-> FALSE, staged |-> {}]).newly}

\* the height of the analysed block
SpendHeight == 3000

\* where a spent output comes from: a transaction of this block (the node
\* reports prevout height 0 for it), or a block 1, 2, 6, 7, 144, 145, 2016
\* or 2017 below this one
SpendSources(n) ==
    {<<t, 0>> : t \in 1..(n + 1)}
    \cup {<<0, SpendHeight - a>> : a \in {1, 2, 6, 7, 144, 145, 2016, 2017}}

\* how the input is classified from its script and witness, and what its
\* prevout is: a witness-v0 spend, an input without script or witness and
\* an anchor spent with a witness that reads as a P2WPKH spend (the anchor
\* script accepts any witness)
SpendKinds ==
    {<<"P2wpkh", "Other", P2A_DUST_THRESHOLD>>,
     <<"Unknown", "Other", P2A_DUST_THRESHOLD>>,
     <<"Unknown", "Anchor", P2A_DUST_THRESHOLD - 1>>,
     <<"P2a", "Anchor", P2A_DUST_THRESHOLD>>,
     <<"P2wpkh", "Anchor", P2A_DUST_THRESHOLD - 1>>}

SpendInput(src, kind) ==
    [in_type |-> kind[1], data |-> "NonCoinbase", prevout_type |-> kind[2],
     prevout_value |-> kind[3], prevout_height |-> src[2],
     txid |-> src[1], vout |-> 0]

\* the inputs of the family: every source with the first kind, every kind
\* with the first external source
SpendFamily(n) ==
    {SpendInput(src, <<"P2wpkh", "Other", P2A_DUST_THRESHOLD>>) :
        src \in SpendSources(n)}
    \cup {SpendInput(<<0, SpendHeight - 1>>, kind) : kind \in SpendKinds}

\* a block at SpendHeight: the coinbase, and the inputs ins cut into
\* version-2 transactions with txids 2, 3, ...
SpendBlock(ins, cuts) ==
    LET ps == IF ins = <<>> THEN <<>> ELSE Pieces(ins, cuts)
        cb == [in_type |-> "Coinbase", data |-> "Coinbase",
               prevout_type |-> "Other", prevout_value |-> 0,
               prevout_height |-> 0, txid |-> 0, vout |-> 0]
    IN  [height |-> SpendHeight,
         txdata |->
            <<[txid |-> 1, version |-> 2, fee |-> NoneVal, vsize |-> 100,
               input |-> <<cb>>, output |-> <<PlainOut(0)>>]>> \o
            [k \in DOMAIN ps |->
                [txid |-> k + 1, version |-> 2, fee |-> Some(1), vsize |-> 100,
                 input |-> ps[k], output |-> <<PlainOut(0)>>]]]

InitSpends ==
    /\ AnalysisOnly
    /\ stats_state = NoneVal
    /\ \E k \in 0..MaxInputs : \E ins \in [1..k -> SpendFamily(MaxInputs)] :
          \E cuts \in SUBSET (1..(k - 1)) :
             stats_block = SpendBlock(ins, cuts)

\* Stats::from_block: the input statistics, and of the transaction
\* statistics tx_spending_newly_created_utxos
SpendsFromBlock ==
    /\ stats_state = NoneVal
    /\ stats_state' =
           Some([block |-> [transactions |-> Transactions(stats_block),
                            inputs |-> BlockInputs(stats_block)],
                 tx |-> [tx_spending_newly_created_utxos |->
                            Cardinality(SpendingNewlyCreated(stats_block))],
                 input |-> InputStatsFromBlock(stats_block),
                 spends |-> InputSpendsFromBlock(stats_block)])
    /\ UNCHANGED <<node, start_height, num_threads, num_analyzers, db, db0,
                   stats_block, main_vars, fetch_vars, block_chan, calc_vars,
                   stat_chan, batch_insert, insert_result, stat_buffer, written,
                   wlog_vars, abort_vars>>

SpecSpends == InitSpends /\ [][SpendsFromBlock]_vars

\* ------------------------------------------------------------ TxStats: timelocks

\* LOCK_TIME_THRESHOLD of the bitcoin crate: a lock-time below it is a block
\* height, one at or above it a UNIX time
LockTimeThreshold == 500000000

\* LockTime::is_block_height and LockTime::is_block_time, on the consensus
\* value of the lock-time
IsBlockHeight(lock_time) == lock_time < LockTimeThreshold

IsBlockTime(lock_time) == lock_time >= LockTimeThreshold

TimelockHeight_ZeroCounts(tx) == IsBlockHeight(tx.lock_time)

\* stats.rs 452-453: the transaction adds to tx_timelock_height
TimelockHeight(tx) == IsBlockHeight(tx.lock_time) /\ tx.lock_time > 0

\* stats.rs 454-456: the else-if branch, tx_timelock_timestamp
TimelockTimestamp(tx) == ~TimelockHeight(tx) /\ IsBlockTime(tx.lock_time)

\* stats.rs 458-460: tx_timelock_not_enforced
TimelockNotEnforced(tx) == tx.lock_time > 0 /\ ~tx.is_lock_time_enabled

\* stats.rs 462-464: tx_timelock_too_high; `height as u32` keeps the value
\* of a block height, which is not negative and below 2^32
TimelockTooHigh(blk, tx) ==
    IsBlockHeight(tx.lock_time) /\ tx.lock_time > blk.height

\* stats.rs 344, 452-464: the four timelock counters over block.txdata
TimelockStatsFromBlock(blk) ==
    LET txs == DOMAIN blk.txdata
    IN  [tx_timelock_height |->
            Cardinality({i \in txs : TimelockHeight(blk.txdata[i])}),
         tx_timelock_timestamp |->
            Cardinality({i \in txs : TimelockTimestamp(blk.txdata[i])}),
         tx_timelock_not_enforced |->
            Cardinality({i \in txs : TimelockNotEnforced(blk.txdata[i])}),
         tx_timelock_too_high |->
            Cardinality({i \in txs : TimelockTooHigh(blk, blk.txdata[i])})]

\* the heights of the analysed block: the genesis block and a later one
LockHeights == {0, 800}

\* lock-times around 0, the block height and the threshold
LockTimes(h) ==
    {0, 1, h, h + 1, LockTimeThreshold - 1, LockTimeThreshold,
     LockTimeThreshold + 1}

LockTxs(h) ==
    {[lock_time |-> l, is_lock_time_enabled |-> e] :
        l \in LockTimes(h), e \in BOOLEAN}

InitTimelock ==
    /\ AnalysisOnly
    /\ stats_state = NoneVal
    /\ \E h \in LockHeights : \E k \in 1..MaxLockTxs :
          \E txs \in [1..k -> LockTxs(h)] :
             stats_block = [height |-> h, txdata |-> txs]

\* Stats::from_block: the timelock counters of the transaction statistics
TimelockFromBlock ==
    /\ stats_state = NoneVal
    /\ stats_state' =
           Some([block |-> [transactions |-> Transactions(stats_block)],
                 tx |-> TimelockStatsFromBlock(stats_block)])
    /\ UNCHANGED <<node, start_height, num_threads, num_analyzers, db, db0,
                   stats_block, main_vars, fetch_vars, block_chan, calc_vars,
                   stat_chan, batch_insert, insert_result, stat_buffer, written,
                   wlog_vars, abort_vars>>

SpecTimelock == InitTimelock /\ [][TimelockFromBlock]_vars

\* ------------------------------------------------------------ Stats::from_block

\* stats.rs 99-101: the date of the block, `%Y-%m-%d` of its timestamp: two
\* timestamps give the same date iff they fall on the same day
DateOf(time) == time \div 86400

\* a string of hexadecimal digits is a sequence of digit values; 16 stands
\* for a character that is no hexadecimal digit
RECURSIVE HexValue(_)
HexValue(digits) ==
    IF digits = <<>> THEN 0
    ELSE 16 * HexValue(SubSeq(digits, 1, Len(digits) - 1)) + digits[Len(digits)]

IsHex(digits) ==
    /\ digits # <<>>
    /\ \A i \in DOMAIN digits : digits[i] < 16

\* stats.rs 228: CompactTarget::from_unprefixed_hex(&block.bits), a u32
FromUnprefixedHexOk(digits) == IsHex(digits) /\ Len(digits) <= 8

\* stats.rs 236: i32::from_str_radix(&block.bits, 16), which overflows from
\* 80000000 on
FromStrRadixOk(digits) ==
    /\ IsHex(digits)
    /\ Len(digits) <= 8
    /\ Len(digits) = 8 => digits[1] < 8

FirstTxError_CoinbaseOnly(blk) ==
    IF blk.txdata[1].raw = "valid" THEN "none"
    ELSE IF blk.txdata[1].raw = "undecodable" THEN "BitcoinEncode" ELSE "TxInfo"

\* stats.rs 103-117: the loop over block.txdata returns at the first
\* transaction that consensus::deserialize or TxInfo::new rejects
FirstTxError(blk) ==
    LET bad == {i \in DOMAIN blk.txdata : blk.txdata[i].raw # "valid"}
    IN  IF bad = {} THEN "none"
        ELSE IF blk.txdata[MinOf(bad)].raw = "undecodable"
             THEN "BitcoinEncode" ELSE "TxInfo"

\* stats.rs 200-286: the error BlockStats::from_block returns, the coinbase
\* being decoded a second time from the same bytes
BlockStatsError(blk) ==
    IF ~FromUnprefixedHexOk(blk.bits) THEN "UnprefixedHex"
    ELSE IF ~FromStrRadixOk(blk.bits) THEN "ParseInt"
    ELSE "none"

\* stats.rs 98-132: Stats::from_block; of every record the key and what the
\* record is stamped with
FromBlock(blk) ==
    LET date == DateOf(blk.time)
        rec == [height |-> blk.height, date |-> date]
    IN  IF FirstTxError(blk) # "none"
        THEN [kind |-> "Err", error |-> FirstTxError(blk)]
        ELSE IF BlockStatsError(blk) # "none"
        THEN [kind |-> "Err", error |-> BlockStatsError(blk)]
        ELSE [kind |-> "Ok",
              stats |->
                 [block |-> [stats_version |-> STATS_VERSION,
                             height |-> blk.height, date |-> date,
                             bits |-> HexValue(blk.bits),
                             transactions |-> Transactions(blk)],
                  tx |-> rec, input |-> rec, output |-> rec, script |-> rec,
                  feerate |-> rec]]

\* the bits of a header: 1d00ffff, ffffffff, 1d00 followed by two letters
\* that are no digits, and the empty string
BitsSamples ==
    {<<1, 13, 0, 0, 15, 15, 15, 15>>, <<15, 15, 15, 15, 15, 15, 15, 15>>,
     <<1, 13, 0, 0, 16, 16>>, <<>>}

\* what the bytes of a transaction are to consensus::deserialize and
\* TxInfo::new
RawSamples == {"valid", "undecodable", "unanalyzable"}

InitBundle ==
    /\ AnalysisOnly
    /\ stats_state = NoneVal
    /\ \E h \in {0, 800} : \E t \in {0, 86399, 86400} : \E b \in BitsSamples :
          \E k \in 1..MaxBundleTxs : \E raws \in [1..k -> RawSamples] :
             stats_block = [height |-> h, time |-> t, bits |-> b,
                            txdata |-> [i \in 1..k |-> [raw |-> raws[i]]]]

BundleFromBlock ==
    /\ stats_state = NoneVal
    /\ stats_state' = Some(FromBlock(stats_block))
    /\ UNCHANGED <<node, start_height, num_threads, num_analyzers, db, db0,
                   stats_block, main_vars, fetch_vars, block_chan, calc_vars,
                   stat_chan, batch_insert, insert_result, stat_buffer, written,
                   wlog_vars, abort_vars>>

SpecBundle == InitBundle /\ [][BundleFromBlock]_vars

\* ------------------------------------------------------------ ScriptStats

\* the positions (transaction, input, index) of the signatures of a block
SigsAt(blk) ==
    UNION {UNION {{<<i, j, k>> :
                     k \in DOMAIN blk.txdata[i].input_infos[j].signature_info} :
                  j \in DOMAIN blk.txdata[i].input_infos} :
           i \in DOMAIN blk.txdata}

\* the positions of the public keys of the inputs and of the outputs
InputPubkeysAt(blk) ==
    UNION {UNION {{<<i, j, k>> :
                     k \in DOMAIN blk.txdata[i].input_infos[j].pubkey_stats} :
                  j \in DOMAIN blk.txdata[i].input_infos} :
           i \in DOMAIN blk.txdata}

OutputPubkeysAt(blk) ==
    UNION {UNION {{<<i, j, k>> :
                     k \in DOMAIN blk.txdata[i].output_infos[j].pubkey_stats} :
                  j \in DOMAIN blk.txdata[i].output_infos} :
           i \in DOMAIN blk.txdata}

LengthBucket_NoPanic(length) ==
    CASE length <= 69 -> "sigs_ecdsa_length_less_70byte"
      [] length = 70 -> "sigs_ecdsa_length_70byte"
      [] length = 71 -> "sigs_ecdsa_length_71byte"
      [] length = 72 -> "sigs_ecdsa_length_72byte"
      [] length = 73 -> "sigs_ecdsa_length_73byte"
      [] length = 74 -> "sigs_ecdsa_length_74byte"
      [] length >= 75 -> "sigs_ecdsa_length_75byte_or_more"

\* stats.rs 549-558: the arm of `match sig.length`
LengthBucket(length) ==
    CASE length >= 8 /\ length <= 69 -> "sigs_ecdsa_length_less_70byte"
      [] length = 70 -> "sigs_ecdsa_length_70byte"
      [] length = 71 -> "sigs_ecdsa_length_71byte"
      [] length = 72 -> "sigs_ecdsa_length_72byte"
      [] length = 73 -> "sigs_ecdsa_length_73byte"
      [] length = 74 -> "sigs_ecdsa_length_74byte"
      [] length >= 75 -> "sigs_ecdsa_length_75byte_or_more"
      [] OTHER -> "panic"

LengthBuckets ==
    {"sigs_ecdsa_length_less_70byte", "sigs_ecdsa_length_70byte",
     "sigs_ecdsa_length_71byte", "sigs_ecdsa_length_72byte",
     "sigs_ecdsa_length_73byte", "sigs_ecdsa_length_74byte",
     "sigs_ecdsa_length_75byte_or_more"}

\* stats.rs 586-594: the arm of `match sig.sig_hash`; 0x81, 0x82 and 0x83
\* are 129, 130 and 131
SighashBucket(sig_hash) ==
    CASE sig_hash = 1 -> "sigs_sighash_all"
      [] sig_hash = 2 -> "sigs_sighash_none"
      [] sig_hash = 3 -> "sigs_sighash_single"
      [] sig_hash = 129 -> "sigs_sighash_all_acp"
      [] sig_hash = 130 -> "sigs_sighash_none_acp"
      [] sig_hash = 131 -> "sigs_sighash_single_acp"
      [] OTHER -> "none"

SighashBuckets ==
    {"sigs_sighash_all", "sigs_sighash_none", "sigs_sighash_single",
     "sigs_sighash_all_acp", "sigs_sighash_none_acp", "sigs_sighash_single_acp"}

\* stats.rs 519-620: ScriptStats::from_block; the call panics at the first
\* ECDSA signature that no arm of the length match takes
ScriptStatsFromBlock(blk) ==
    LET sig(p) == blk.txdata[p[1]].input_infos[p[2]].signature_info[p[3]]
        ipk(p) == blk.txdata[p[1]].input_infos[p[2]].pubkey_stats[p[3]]
        opk(p) == blk.txdata[p[1]].output_infos[p[2]].pubkey_stats[p[3]]
        ecdsa == {p \in SigsAt(blk) : sig(p).signature = "Ecdsa"}
        ins == InputPubkeysAt(blk)
        outs == OutputPubkeysAt(blk)
        n(S) == Cardinality(S)
    IN  IF \E p \in ecdsa : LengthBucket(sig(p).length) = "panic"
        THEN [kind |-> "Panic"]
        ELSE [kind |-> "Ok",
              script |->
                [pubkeys |-> n(ins) + n(outs),
                 pubkeys_compressed |->
                    n({p \in ins : ipk(p).compressed})
                        + n({p \in outs : opk(p).compressed}),
                 pubkeys_uncompressed |->
                    n({p \in ins : ~ipk(p).compressed})
                        + n({p \in outs : ~opk(p).compressed}),
                 pubkeys_compressed_inputs |-> n({p \in ins : ipk(p).compressed}),
                 pubkeys_uncompressed_inputs |-> n({p \in ins : ~ipk(p).compressed}),
                 pubkeys_compressed_outputs |-> n({p \in outs : opk(p).compressed}),
                 pubkeys_uncompressed_outputs |-> n({p \in outs : ~opk(p).compressed}),
                 sigs_schnorr |->
                    n({p \in SigsAt(blk) : sig(p).signature = "Schnorr"}),
                 sigs_ecdsa |-> n(ecdsa),
                 sigs_ecdsa_strict_der |->
                    n({p \in ecdsa : sig(p).der_encoded = "Valid"}),
                 sigs_ecdsa_not_strict_der |->
                    n({p \in ecdsa : sig(p).der_encoded # "Valid"}),
                 length |->
                    [b \in LengthBuckets |->
                        n({p \in ecdsa : LengthBucket(sig(p).length) = b})],
                 sigs_ecdsa_low_r |-> n({p \in ecdsa : sig(p).low_r}),
                 sigs_ecdsa_high_r |-> n({p \in ecdsa : ~sig(p).low_r}),
                 sigs_ecdsa_low_s |-> n({p \in ecdsa : sig(p).low_s}),
                 sigs_ecdsa_high_s |-> n({p \in ecdsa : ~sig(p).low_s}),
                 sigs_ecdsa_low_rs |->
                    n({p \in ecdsa : sig(p).low_r /\ sig(p).low_s}),
                 sigs_ecdsa_high_rs |->
                    n({p \in ecdsa : ~sig(p).low_r /\ ~sig(p).low_s}),
                 sigs_ecdsa_low_r_high_s |->
                    n({p \in ecdsa : sig(p).low_r /\ ~sig(p).low_s}),
                 sigs_ecdsa_high_r_low_s |->
                    n({p \in ecdsa : ~sig(p).low_r /\ sig(p).low_s}),
                 sigs_sighashes |-> n(ecdsa),
                 sighash |->
                    [b \in SighashBuckets |->
                        n({p \in ecdsa : SighashBucket(sig(p).sig_hash) = b})]]]

\* a 71-byte strict-DER ECDSA signature with low R, low S and SIGHASH_ALL
DefaultSig ==
    [signature |-> "Ecdsa", der_encoded |-> "Valid", length |-> 71,
     low_r |-> TRUE, low_s |-> TRUE, sig_hash |-> 1]

\* the signatures of the family: the default one changed in one field at a
\* time, and a Schnorr signature with the fields of a high-R, high-S short
\* signature, which must count nowhere
SigSamples ==
    {[DefaultSig EXCEPT !.length = l] : l \in {7, 8, 69, 70, 71, 72, 73, 74, 75}}
    \cup {[DefaultSig EXCEPT !.der_encoded = "Invalid"]}
    \cup {[DefaultSig EXCEPT !.low_r = a[1], !.low_s = a[2]] :
             a \in BOOLEAN \X BOOLEAN}
    \cup {[DefaultSig EXCEPT !.sig_hash = h] : h \in {0, 2, 3, 129, 130, 131}}
    \cup {[DefaultSig EXCEPT !.length = 8, !.sig_hash = 4]}
    \cup {[signature |-> "Schnorr", der_encoded |-> "Invalid", length |-> 7,
           low_r |-> FALSE, low_s |-> FALSE, sig_hash |-> 1]}

\* the public keys of an input or an output: none, or one
PubkeySamples ==
    {<<>>, <<[compressed |-> TRUE]>>, <<[compressed |-> FALSE]>>}

InitScript ==
    /\ AnalysisOnly
    /\ stats_state = NoneVal
    /\ \E k \in 0..MaxSigs : \E sigs \in [1..k -> SigSamples] :
          \E ipks \in PubkeySamples : \E opks \in PubkeySamples :
             stats_block =
                [txdata |->
                    <<[input_infos |-> <<[pubkey_stats |-> ipks,
                                          signature_info |-> sigs]>>,
                       output_infos |-> <<[pubkey_stats |-> opks]>>]>>]

\* Stats::from_block: the script statistics
ScriptFromBlock ==
    /\ stats_state = NoneVal
    /\ stats_state' = Some(ScriptStatsFromBlock(stats_block))
    /\ UNCHANGED <<node, start_height, num_threads, num_analyzers, db, db0,
                   stats_block, main_vars, fetch_vars, block_chan, calc_vars,
                   stat_chan, batch_insert, insert_result, stat_buffer, written,
                   wlog_vars, abort_vars>>

SpecScript == InitScript /\ [][ScriptFromBlock]_vars

\* ------------------------------------------------------------ claims

\* the heights of the plan, the heights fetched and the heights passed to
\* insert_stats
Plan == Range(heights_to_fetch)

Fetched == BagToSet(fetch_log)

Inserted == UNION {Range(insert_log[i].batch) : i \in 1..Len(insert_log)}

\* the tip the node reported and the start of the range, as integers
Tip == node.blocks

StartHeight == IF start_height = NoneVal THEN 0 ELSE start_height[1]

\* PlanHeights has run (chain_info succeeded and the node was not in IBD)
Planned == pc_main \notin {"start", "plan"} /\ result \notin {"REST", "IBDNotDone"}

\* C1: if block_at_height fails for any height of the plan, the run is
\* aborted: collect_statistics returns an error and never returns Ok.
C1_FetchFailureAbortsRun == fetch_failed # {} => result # "Ok"

\* C2: whenever collect_statistics returns Ok for the range [L, H), with
\* L = start_height or 0 and H = tip - 6, every height of [L, H) is in
\* heights_up_to_date(STATS_VERSION) afterwards.
C2_SkipCorrectness ==
    result = "Ok" =>
        \A h \in StartHeight..(Tip - REORG_SAFETY_MARGIN - 1) :
            h \in HeightsUpToDate(db, STATS_VERSION)

\* C4: when the writer has failed and dropped the stat receiver, an analyzer
\* whose send fails exits softly and does not panic, so that
\* collect_statistics returns the writer's store error.
C4_AnalyzerSoftExit ==
    /\ abort_cause # "StatsReceiverDropped"
    /\ (insert_result = "DB" /\ pc_main = "done") => result = "DB"

\* C5: for every tip, also tip < 6, fetch_height = max(0, tip - 6) is
\* computed without underflow or panic; for tip <= 6 the plan is empty and
\* the run returns Ok without fetching a block.
C5_FetchHeightSaturates ==
    Planned =>
        /\ result # "Panic"
        /\ fetch_height = U64(Max(0, Tip - REORG_SAFETY_MARGIN))
        /\ Tip <= REORG_SAFETY_MARGIN => Plan = {} /\ Fetched = {}

\* the plan as the specification states it, over the integers
SpecPlan ==
    {h \in 0..MaxTip :
        /\ StartHeight <= h
        /\ h < Tip - REORG_SAFETY_MARGIN
        /\ h \notin HeightsUpToDate(db0, STATS_VERSION)}

\* C6: the heights block_at_height is called for, and the heights written,
\* are heights of plan = [start_height, tip - 6) \ heights_up_to_date:
\* none at or above tip - 6, none below start_height, none up to date.
C6_FetchedWithinPlan ==
    /\ Planned /\ result # "Panic" /\ result # "DB" => Plan = SpecPlan
    /\ Fetched \subseteq SpecPlan
    /\ Inserted \subseteq SpecPlan

\* C6 witness: a block was fetched in a run whose plan leaves out a height
\* below tip - 6, either because it lies below the start height or because
\* its row is up to date
C6_Witness ==
    /\ Fetched # {}
    /\ \E h \in 0..(Tip - REORG_SAFETY_MARGIN - 1) :
          \/ h < StartHeight
          \/ h \in HeightsUpToDate(db0, STATS_VERSION)

\* C7: if chain_info reports initialblockdownload, collect_statistics
\* returns IBDNotDone before the store is queried, before any stage is
\* started, without any block fetch or store write.
C7_IbdRefusesToStart ==
    node.initialblockdownload =>
        /\ result \in {"none", "REST", "IBDNotDone"}
        /\ pc_main \in {"start", "done"}
        /\ ~store_queried
        /\ get_blocks = "unspawned"
        /\ calc_stats = "unspawned"
        /\ batch_insert = "unspawned"
        /\ Fetched = {}
        /\ insert_log = <<>>
        /\ db = db0

\* C7 witness: the node reported IBD and the run returned IBDNotDone
C7_Witness == node.initialblockdownload /\ result = "IBDNotDone"

\* the store a successful run leaves: the rows it found, with the row of
\* every height of the plan whose block the node delivered replaced by the
\* bundle of that block
ExpectedStore ==
    LET new == Plan \ fetch_failed
    IN  [h \in DOMAIN db0 \cup new |->
            IF h \in new
            THEN [height |-> h, stats_version |-> STATS_VERSION]
            ELSE db0[h]]

\* C10: for a fixed plan and fixed blocks, the store after a successful run
\* is the same under every interleaving of fetchers, analyzers and writer:
\* it is determined by the store found, the plan and the blocks delivered.
C10_OrderIndependence == result = "Ok" => db = ExpectedStore

\* C10 witness: a successful run that received two bundles in descending
\* order of height
C10_Witness ==
    /\ result = "Ok"
    /\ Len(received) >= 2
    /\ received[1] > received[2]


\* the decoded blocks alive: held by a fetch worker blocked in send, waiting
\* in the block channel, or moved into a spawned closure whose analysis has
\* not finished
LiveBlocks == Cardinality(fetcher) + Len(block_chan) + Len(jobs)

\* C3: at every point of a run the number of decoded blocks alive is at most
\* the capacity of the block channel plus the number of fetch workers plus
\* the number of analyzer threads, whatever the size of the plan.
C3_BoundedLiveBlocks ==
    LiveBlocks <= BLOCK_CHANNEL_CAPACITY + num_threads + num_analyzers

RECURSIVE ConcatBatches(_)
\* the batches of a log of insert_stats calls, one after the other
ConcatBatches(log) ==
    IF log = <<>> THEN <<>> ELSE log[1].batch \o ConcatBatches(Tail(log))

FinalCalls == {i \in 1..Len(insert_log) : insert_log[i].final}

\* C8: the buffer never holds more than DATABASE_BATCH_SIZE bundles; every
\* insert_stats call made in the receive loop is made with exactly
\* DATABASE_BATCH_SIZE bundles; once the writer sees the channel closed, a
\* remainder of 1..DATABASE_BATCH_SIZE-1 bundles is inserted in exactly one
\* final call, and no call is made for an empty buffer; every bundle the
\* writer received is in exactly one batch, or still in the buffer.
C8_WriterBatching ==
    /\ Len(stat_buffer) <= DATABASE_BATCH_SIZE
    /\ \A i \in 1..Len(insert_log) :
          /\ Len(insert_log[i].batch) <= DATABASE_BATCH_SIZE
          /\ ~insert_log[i].final =>
                Len(insert_log[i].batch) = DATABASE_BATCH_SIZE
          /\ insert_log[i].final =>
                /\ i = Len(insert_log)
                /\ batch_insert = "returned"
                /\ Len(insert_log[i].batch) \in 1..(DATABASE_BATCH_SIZE - 1)
    /\ Cardinality(FinalCalls) <= 1
    /\ (batch_insert = "returned" /\ insert_result = "Ok") =>
          (FinalCalls # {} <=> Len(received) % DATABASE_BATCH_SIZE # 0)
    /\ received = ConcatBatches(insert_log) \o HeightsOf(stat_buffer)
    /\ batch_insert = "returned" => received = ConcatBatches(insert_log)

\* C8 witness: the writer returned Ok after a full batch inserted in the
\* loop and a final partial batch
C8_Witness ==
    /\ batch_insert = "returned"
    /\ insert_result = "Ok"
    /\ Len(insert_log) >= 2
    /\ ~insert_log[1].final
    /\ insert_log[Len(insert_log)].final

\* nothing is queued, being sent or buffered
Drained ==
    /\ todo = {}
    /\ fetcher = {}
    /\ block_chan = <<>>
    /\ jobs = <<>>
    /\ analyzer = {}
    /\ stat_chan = <<>>
    /\ stat_buffer = <<>>

RunAborted ==
    /\ get_blocks # "unspawned"
    /\ \/ aborted
       \/ batch_insert = "returned" /\ insert_result # "Ok"
       \/ result \notin {"none", "Ok"}

\* the heights of the batches insert_stats committed
Committed ==
    UNION {Range(insert_log[i].batch) :
              i \in {j \in 1..Len(insert_log) : insert_log[j].ok}}

\* C11: when a run aborts after k batches were committed, the rows of those
\* batches are in the store with stats_version = STATS_VERSION, and the plan
\* a following run computes from the same tip and start height is the
\* previous plan without the heights of the committed batches.
C11_RestartSafety ==
    RunAborted =>
        /\ \A h \in Committed :
              h \in DOMAIN db /\ db[h].stats_version = STATS_VERSION
        /\ PlanOf(start_height, fetch_height, db) = Plan \ Committed

\* C11 witness: the run aborted after at least one committed batch, with
\* heights of the plan left for the following run
C11_Witness ==
    /\ RunAborted
    /\ Committed # {}
    /\ Plan \ Committed # {}

\* a step of a run in which a blocked fetch worker keeps its block: the
\* worker still holds it, nothing was appended to the block channel, and
\* with every worker blocked no further block_at_height call was made
FetchersWait ==
    /\ fetcher \subseteq fetcher'
    /\ block_chan' \in {block_chan, Tail(block_chan)}
    /\ Cardinality(fetcher) = num_threads => fetch_log' = fetch_log

\* the same for an analyzer blocked on the stat channel
AnalyzersWait ==
    /\ analyzer \subseteq analyzer'
    /\ stat_chan' \in {stat_chan, Tail(stat_chan)}
    /\ Cardinality(analyzer) = num_analyzers => analyzed' = analyzed

FromBlockFails == abort_cause # "StatsError" /\ abort_cause' = "StatsError"

\* the heights of the values on their way to the writer or buffered by it
HeightsInFlight ==
    {item.stats.height : item \in analyzer}
        \cup {stat_chan[i].stats.height : i \in 1..Len(stat_chan)}
        \cup {stat_buffer[i].height : i \in 1..Len(stat_buffer)}

\* C13: when Stats::from_block fails for a block the analyzer panics: no
\* value for that height reaches the writer, no row for it is written and
\* the run does not return Ok (nothing runs after the panic); the writer
\* never receives an Err item.
C13_AnalysisErrorPanics ==
    /\ [][FromBlockFails =>
            LET h == Head(jobs).height
            IN  /\ h \notin HeightsInFlight'
                /\ h \notin Range(received')
                /\ h \notin Inserted'
                /\ result' # "Ok"]_vars
    /\ [][abort_cause # "StatsError"]_vars
    /\ [](/\ \A i \in 1..Len(stat_chan) : stat_chan[i].tag = "Ok"
          /\ insert_result # "Stats")

\* C13 witness: the analysis of a block failed after the writer had received
\* the bundle of another block
C13_Witness == abort_cause = "StatsError" /\ received # <<>>

\* the sum of the ten band counters
RECURSIVE SumTo(_, _)
SumTo(f, n) == IF n = 0 THEN 0 ELSE f[n] + SumTo(f, n - 1)

\* FeerateStats::from_block has returned
FeerateDone == stats_state # NoneVal

\* C14 as stated: zero_fee_tx + below_1_sat_vbyte + the ten bands =
\* transactions - 1 for every block.
C14_FeeratePartition ==
    FeerateDone =>
        LET f == stats_state[1]
        IN  f.zero_fee_tx + f.below_1_sat_vbyte + SumTo(f.band, 10)
                = Transactions(stats_block) - 1

\* C14 amended: below_1_sat_vbyte + the ten bands = transactions - 1; a
\* zero-fee transaction is counted in zero_fee_tx and in below_1_sat_vbyte,
\* so the sum with zero_fee_tx is transactions - 1 + zero_fee_tx.
C14_FeeratePartition_Amended ==
    FeerateDone =>
        LET f == stats_state[1]
        IN  /\ f.below_1_sat_vbyte + SumTo(f.band, 10)
                  = Transactions(stats_block) - 1
            /\ f.zero_fee_tx <= f.below_1_sat_vbyte
            /\ f.zero_fee_tx + f.below_1_sat_vbyte + SumTo(f.band, 10)
                  = Transactions(stats_block) - 1 + f.zero_fee_tx

\* C14 witness: the statistics of a block with a zero-fee transaction and a
\* transaction in a band
C14_Witness ==
    /\ FeerateDone
    /\ stats_state[1].zero_fee_tx > 0
    /\ SumTo(stats_state[1].band, 10) > 0

\* the non-coinbase transactions with lo <= fee / vsize < hi
TxsInBand(lo, hi) ==
    {i \in 2..Len(stats_block.txdata) :
        LET tx == stats_block.txdata[i]
            fee == IF tx.fee = NoneVal THEN 0 ELSE tx.fee[1]
        IN  lo * tx.vsize <= fee /\ (hi = 0 \/ fee < hi * tx.vsize)}

\* C15: every transaction but the coinbase is counted in exactly one of
\* below_1_sat_vbyte and the ten bands; the bands are half-open: fee < vsize
\* counts below 1, b * vsize <= fee < b' * vsize counts in the band [b, b'),
\* fee >= 1000 * vsize counts in the last band.
C15_FeerateBands ==
    FeerateDone =>
        LET f == stats_state[1]
        IN  /\ f.below_1_sat_vbyte = Cardinality(TxsInBand(0, 1))
            /\ \A k \in 1..9 :
                  f.band[k] =
                      Cardinality(TxsInBand(BandBounds[k], BandBounds[k + 1]))
            /\ f.band[10] = Cardinality(TxsInBand(1000, 0))
            /\ f.below_1_sat_vbyte + SumTo(f.band, 10)
                  = Len(stats_block.txdata) - 1

\* C15 witness: a transaction with fee = 5 * vsize was counted
C15_Witness ==
    /\ FeerateDone
    /\ \E i \in 2..Len(stats_block.txdata) :
          /\ stats_block.txdata[i].vsize > 1
          /\ stats_block.txdata[i].fee = Some(5 * stats_block.txdata[i].vsize)
    /\ stats_state[1].band[3] > 0

\* Stats::from_block has returned
TypesDone == stats_state # NoneVal

\* C16: the 14 input-type counters sum to BlockStats.inputs, also when the
\* second pass has moved anchor-prevout inputs from inputs_unknown to
\* inputs_p2a.
C16_InputTypesExhaustive ==
    TypesDone =>
        SumOver(InputCounters, stats_state[1].input) = stats_state[1].block.inputs

\* C16 witness: the statistics of a block with an anchor-prevout input that
\* the second pass moved to inputs_p2a, and an input of another type
C16_Witness ==
    /\ TypesDone
    /\ stats_state[1].input["inputs_p2a"] > 0
    /\ stats_state[1].block.inputs > 2

\* C17: the ten output-type counters sum to BlockStats.outputs;
\* outputs_p2a_dust and the OP_RETURN flavor counters are not summed.
C17_OutputTypesExhaustive ==
    TypesDone =>
        SumOver(OutputCounters, stats_state[1].output.count)
            = stats_state[1].block.outputs

\* C17 witness: the statistics of a block with a dust pay-to-anchor output
\* and a runestone OP_RETURN output
C17_Witness ==
    /\ TypesDone
    /\ stats_state[1].output.outputs_p2a_dust > 0
    /\ stats_state[1].output.outputs_opreturn_runestone > 0

\* C18: exactly one of inputs_coinbase and inputs_witness_coinbase is 1 and
\* the other 0; outputs_coinbase is the number of outputs of the first
\* transaction, and the outputs_coinbase_* counters count outputs of the
\* first transaction only.
C18_CoinbaseInvariants ==
    TypesDone =>
        LET st == stats_state[1]
            first == stats_block.txdata[1]
        IN  /\ st.input["inputs_coinbase"] + st.input["inputs_witness_coinbase"] = 1
            /\ st.input["inputs_coinbase"] \in {0, 1}
            /\ st.output.outputs_coinbase = Len(first.output)
            /\ \A c \in CoinbaseCounted :
                  st.output.coinbase_count[c] =
                      Cardinality({j \in 1..Len(first.output) :
                                      OutputCounterOf(first.output[j].out_type) = c})
            /\ st.output.outputs_opreturn_coinbase_witness_commitment =
                  Cardinality({j \in 1..Len(first.output) :
                                  first.output[j].flavor = "WitnessCommitment"})

\* C18 witness: the statistics of a block whose second transaction has an
\* output of another type than the outputs of the coinbase
C18_Witness ==
    /\ TypesDone
    /\ Len(stats_block.txdata) >= 2
    /\ stats_state[1].output.outputs_coinbase = 1
    /\ stats_block.txdata[2].output[1].out_type = "OpReturn"
    /\ stats_block.txdata[1].output[1].out_type = "P2tr"

\* the transaction the loop of TxStats::from_block is about to scan, and
\* the outpoints staged at that moment
Scanned == stats_block.txdata[stats_state.i]

StagedNow == stats_state.ephemeral_dust_outpoints_in_this_block

\* the staged outpoints the scanned transaction spends
SpentStaged ==
    {Outpoint(Scanned.input[k]) : k \in 1..Len(Scanned.input)} \cap StagedNow

\* C19: a transaction T adds to tx_spending_ephemeral_dust, and then
\* exactly 1, iff an input of T spends an outpoint staged when T is scanned,
\* T.version = 3, T.fee is not zero and T.vsize <= 1000.
C19_SpendingEphemeralDust ==
    [][stats_state'.i = stats_state.i + 1 =>
          stats_state'.tx_spending_ephemeral_dust
              - stats_state.tx_spending_ephemeral_dust
          = IF /\ SpentStaged # {}
               /\ Scanned.version = 3
               /\ Scanned.fee # Some(0)
               /\ Scanned.vsize <= 1000
            THEN 1 ELSE 0]_vars

\* C19 witness: a transaction of vsize 1000 that spent two staged outpoints
\* was counted once
C19_Witness ==
    /\ stats_state.i = 5
    /\ stats_state.tx_spending_ephemeral_dust = 1
    /\ stats_block.txdata[4].vsize = 1000
    /\ {<<2, 1>>, <<3, 0>>} \subseteq
           {Outpoint(stats_block.txdata[4].input[k]) :
               k \in 1..Len(stats_block.txdata[4].input)}
    /\ stats_block.txdata[2].output = <<PlainOut(0), DustOut(1)>>
    /\ stats_block.txdata[3].output = <<DustOut(0)>>
    /\ \A k \in 2..3 : /\ stats_block.txdata[k].version = 3
                         /\ stats_block.txdata[k].fee = Some(0)
                         /\ stats_block.txdata[k].vsize = 10000

\* the outputs of the scanned transaction below the dust threshold of
\* their scriptPubKey
SubDust ==
    {j \in 1..Len(Scanned.output) :
        Scanned.output[j].value < Scanned.output[j].minimal_non_dust}

\* C20: a transaction P stages an outpoint iff it is not the coinbase,
\* P.version = 3, P.fee = 0, P.vsize <= 10000 and exactly one output of P is
\* below its dust threshold; it stages that outpoint (P.txid, n) alone, and
\* only after its own inputs were scanned.
C20_StagingRule ==
    [][stats_state'.i = stats_state.i + 1 =>
          /\ stats_state'.ephemeral_dust_outpoints_in_this_block \ StagedNow
              = IF /\ stats_state.i # 1
                   /\ Scanned.version = 3
                   /\ Scanned.fee = Some(0)
                   /\ Scanned.vsize <= 10000
                   /\ Cardinality(SubDust) = 1
                THEN {<<Scanned.txid, Scanned.output[j].n>> : j \in SubDust}
                ELSE {}
          /\ \A op \in StagedNow : op[1] # Scanned.txid]_vars

\* C20 witness: the second output of a transaction of vsize 10000 is staged,
\* and a transaction with two sub-dust outputs has staged nothing
C20_Witness ==
    /\ stats_state.i = 4
    /\ stats_block.txdata[2].vsize = 10000
    /\ stats_block.txdata[3].output = <<DustOut(0), DustOut(1)>>
    /\ stats_state.ephemeral_dust_outpoints_in_this_block = {<<2, 1>>}

\* the transactions scanned so far that staged an outpoint
StagedProducers ==
    {k \in 1..(stats_state.i - 1) : StagedOutpoints(stats_block.txdata[k]) # {}}

\* the scanned transaction matches the spending criteria
MatchesCriteria ==
    /\ Scanned.version = 3
    /\ Scanned.fee # Some(0)
    /\ Scanned.vsize <= 1000

\* the staged outpoints the scan of this transaction removes
TakenNow == StagedNow \ stats_state'.ephemeral_dust_outpoints_in_this_block

\* the first input of the scanned transaction that spends a staged outpoint
FirstSpentStaged ==
    LET ks == {k \in 1..Len(Scanned.input) :
                  Outpoint(Scanned.input[k]) \in StagedNow}
    IN  Outpoint(Scanned.input[MinOf(ks)])

\* C21 as stated: a transaction that spends staged outpoints removes them
\* if it matches the spending criteria (version 3, fee not zero,
\* vsize <= 1000) and leaves them staged if it does not; the count never
\* exceeds the number of staged producers.
C21_SingleTake ==
    [][stats_state'.i = stats_state.i + 1 =>
          /\ TakenNow = IF MatchesCriteria THEN SpentStaged ELSE {}
          /\ stats_state'.tx_spending_ephemeral_dust
                <= Cardinality(StagedProducers')]_vars

\* C21, amended: a transaction that does not match the criteria removes
\* every staged outpoint it spends and is not counted; a matching one
\* removes the first staged outpoint among its inputs, and that one alone,
\* and is counted once; nothing else leaves the staged set, so the count
\* plus the outpoints still staged never exceed the staged producers.
C21_SingleTake_Amended ==
    [][stats_state'.i = stats_state.i + 1 =>
          /\ TakenNow = IF SpentStaged = {} THEN {}
                        ELSE IF MatchesCriteria THEN {FirstSpentStaged}
                        ELSE SpentStaged
          /\ stats_state'.tx_spending_ephemeral_dust
               - stats_state.tx_spending_ephemeral_dust
               = IF MatchesCriteria THEN Cardinality(TakenNow) ELSE 0
          /\ stats_state'.tx_spending_ephemeral_dust
               + Cardinality(stats_state'.ephemeral_dust_outpoints_in_this_block)
                <= Cardinality(StagedProducers')]_vars

\* C21 witness: a version-2 transaction spent the one staged outpoint; it
\* was not counted and the outpoint is staged no more
C21_Witness ==
    /\ stats_state.i = 4
    /\ stats_block.txdata[2] = ProducerTx(
           [version |-> 3, fee |-> Some(0), vsize |-> 10000,
            output |-> <<PlainOut(0), DustOut(1)>>], 2)
    /\ stats_block.txdata[3].version = 2
    /\ Outpoint(stats_block.txdata[3].input[1]) = <<2, 1>>
    /\ stats_state.ephemeral_dust_outpoints_in_this_block = {}
    /\ stats_state.tx_spending_ephemeral_dust = 0

SpendsDone == stats_state # NoneVal

\* the age of a non-coinbase input as the statement defines it
AgeOf(p) ==
    LET inp == stats_block.txdata[p[1]].input[p[2]]
    IN  IF inp.txid \in {stats_block.txdata[i].txid : i \in DOMAIN stats_block.txdata}
        THEN 0
        ELSE stats_block.height - inp.prevout_height

\* C22: with age = 0 for an input whose previous txid is in the block and
\* block.height - prevout.height otherwise, inputs_spending_prev_N_blocks
\* counts the non-coinbase inputs of age <= N (N in 1, 6, 144, 2016) and
\* inputs_spend_in_same_block those whose previous txid is in the block;
\* coinbase inputs count nowhere, and same_block <= prev_1 <= prev_6 <=
\* prev_144 <= prev_2016 <= number of non-coinbase inputs.
C22_UtxoAgeAccounting ==
    SpendsDone =>
        LET sp == stats_state[1].spends
            nc == {p \in InputsAt(stats_block) : p[1] # 1}
        IN  /\ \A n \in {1, 6, 144, 2016} :
                  sp.inputs_spending_prev[n]
                      = Cardinality({p \in nc : AgeOf(p) <= n})
            /\ sp.inputs_spend_in_same_block
                  = Cardinality({p \in nc : AgeOf(p) = 0})
            /\ sp.inputs_spend_in_same_block <= sp.inputs_spending_prev[1]
            /\ sp.inputs_spending_prev[1] <= sp.inputs_spending_prev[6]
            /\ sp.inputs_spending_prev[6] <= sp.inputs_spending_prev[144]
            /\ sp.inputs_spending_prev[144] <= sp.inputs_spending_prev[2016]
            /\ sp.inputs_spending_prev[2016]
                  <= stats_state[1].block.inputs - 1

\* C22 witness: one input spends an output of this block and one an output
\* 7 blocks old; the four counters are 1, 1, 2, 2
C22_Witness ==
    /\ SpendsDone
    /\ stats_state[1].spends.inputs_spend_in_same_block = 1
    /\ stats_state[1].spends.inputs_spending_prev[1] = 1
    /\ stats_state[1].spends.inputs_spending_prev[6] = 1
    /\ stats_state[1].spends.inputs_spending_prev[144] = 2
    /\ stats_state[1].spends.inputs_spending_prev[2016] = 2
    /\ \E p \in InputsAt(stats_block) :
          stats_block.txdata[p[1]].input[p[2]].prevout_height = SpendHeight - 7

TimelockDone == stats_state # NoneVal

\* the transactions of the analysed block that satisfy P
LockCount(P(_)) ==
    Cardinality({i \in DOMAIN stats_block.txdata : P(stats_block.txdata[i])})

\* C23: tx_timelock_height counts the transactions whose lock-time is
\* height-valued and > 0, tx_timelock_timestamp those whose lock-time is
\* time-valued, and no transaction is in both; tx_timelock_not_enforced
\* counts those with lock-time > 0 and lock-time not enabled;
\* tx_timelock_too_high those with a height-valued lock-time above the
\* block's height. So too_high <= height and height + timestamp <=
\* transactions.
C23_TimelockBuckets ==
    TimelockDone =>
        LET t == stats_state[1].tx
            HeightValued(tx) == tx.lock_time < 500000000
            TimeValued(tx) == tx.lock_time >= 500000000
            ByHeight(tx) == HeightValued(tx) /\ tx.lock_time > 0
            NotEnforced(tx) == tx.lock_time > 0 /\ ~tx.is_lock_time_enabled
            TooHigh(tx) == HeightValued(tx) /\ tx.lock_time > stats_block.height
            Both(tx) == ByHeight(tx) /\ TimeValued(tx)
        IN  /\ t.tx_timelock_height = LockCount(ByHeight)
            /\ t.tx_timelock_timestamp = LockCount(TimeValued)
            /\ LockCount(Both) = 0
            /\ t.tx_timelock_not_enforced = LockCount(NotEnforced)
            /\ t.tx_timelock_too_high = LockCount(TooHigh)
            /\ t.tx_timelock_too_high <= t.tx_timelock_height
            /\ t.tx_timelock_height + t.tx_timelock_timestamp
                  <= stats_state[1].block.transactions

\* C23 witness: a block at height 800 with lock-times 801 and 0; one
\* transaction is counted by height and as too high, the other nowhere
C23_Witness ==
    /\ TimelockDone
    /\ stats_block.height = 800
    /\ Len(stats_block.txdata) = 2
    /\ stats_block.txdata[1].lock_time = 0
    /\ stats_block.txdata[2].lock_time = 801
    /\ ~stats_block.txdata[2].is_lock_time_enabled
    /\ stats_state[1].tx = [tx_timelock_height |-> 1,
                            tx_timelock_timestamp |-> 0,
                            tx_timelock_not_enforced |-> 1,
                            tx_timelock_too_high |-> 1]

BundleDone == stats_state # NoneVal

\* the six records of a bundle
Siblings == {"block", "tx", "input", "output", "script", "feerate"}

\* C24: Stats::from_block returns a complete bundle or an error and nothing
\* in between. It returns an error iff a transaction fails to decode or to
\* analyze, the bits are no compact-target hex or do not convert to an
\* integer; on success the bundle has all six records, each with the
\* height and the date of the block, and BlockStats.stats_version is
\* STATS_VERSION.
C24_BundleOrError ==
    BundleDone =>
        LET r == stats_state[1]
            failure ==
                \/ \E i \in DOMAIN stats_block.txdata :
                      stats_block.txdata[i].raw # "valid"
                \/ stats_block.bits \notin
                      {<<1, 13, 0, 0, 15, 15, 15, 15>>}
        IN  /\ r.kind \in {"Ok", "Err"}
            /\ r.kind = "Err" <=> failure
            /\ r.kind = "Err" => DOMAIN r = {"kind", "error"}
            /\ r.kind = "Ok" =>
                  /\ DOMAIN r.stats = Siblings
                  /\ \A n \in Siblings :
                        /\ r.stats[n].height = stats_block.height
                        /\ r.stats[n].date = r.stats.block.date
                  /\ r.stats.block.stats_version = STATS_VERSION

\* C24 witness: the second transaction of a block with good bits is not
\* analyzable, and the call returned the TxInfo error
C24_Witness ==
    /\ BundleDone
    /\ Len(stats_block.txdata) = 2
    /\ stats_block.txdata[1].raw = "valid"
    /\ stats_block.txdata[2].raw = "unanalyzable"
    /\ stats_block.bits = <<1, 13, 0, 0, 15, 15, 15, 15>>
    /\ stats_state[1] = [kind |-> "Err", error |-> "TxInfo"]

\* C25: tx_spending_ephemeral_dust <= tx_spending_newly_created_utxos, as
\* every transaction counted as spending ephemeral dust is also counted as
\* spending a newly created UTXO.
C25_DustSpendIsNewlyCreated ==
    [][stats_state'.i = stats_state.i + 1 =>
          /\ stats_state'.tx_spending_ephemeral_dust
                - stats_state.tx_spending_ephemeral_dust
             <= stats_state'.tx_spending_newly_created_utxos
                - stats_state.tx_spending_newly_created_utxos
          /\ stats_state'.tx_spending_ephemeral_dust
                <= stats_state'.tx_spending_newly_created_utxos]_vars

\* C25 witness: the block is scanned; its last transaction spent an outside
\* outpoint first and the staged outpoint after it, and is counted in both
C25_Witness ==
    /\ stats_state.i = 4
    /\ Len(stats_block.txdata) = 3
    /\ Len(stats_block.txdata[3].input) = 2
    /\ Outpoint(stats_block.txdata[3].input[1]) = <<0, 0>>
    /\ stats_state.tx_spending_ephemeral_dust = 1
    /\ stats_state.tx_spending_newly_created_utxos = 1

\* the non-coinbase inputs InputStats takes as same-block spends, and those
\* among the inputs of a transaction TxStats could take as such
SameBlockForInputStats ==
    {p \in NonCoinbaseAt(stats_block) :
        stats_block.txdata[p[1]].input[p[2]].txid
            \in {stats_block.txdata[i].txid : i \in DOMAIN stats_block.txdata}}

SameBlockForTxStats ==
    {p \in NonCoinbaseAt(stats_block) :
        stats_block.txdata[p[1]].input[p[2]].txid
            \in {stats_block.txdata[i].txid : i \in 1..(p[1] - 1)}}

\* every input that spends a transaction of the block spends an earlier one
SpentPrecedeSpenders ==
    \A p \in SameBlockForInputStats :
        \E i \in 1..(p[1] - 1) :
            stats_block.txdata[i].txid = stats_block.txdata[p[1]].input[p[2]].txid

\* C26: tx_spending_newly_created_utxos counts the transactions with an
\* input spending a txid at an earlier position, inputs_spend_in_same_block
\* the inputs spending a txid of the whole block, so the first is at most
\* the second; the two views take the same inputs as same-block spends iff
\* every spent in-block transaction precedes its spender.
C26_NewlyCreatedVsSameBlock ==
    SpendsDone =>
        LET r == stats_state[1]
        IN  /\ r.tx.tx_spending_newly_created_utxos
                  = Cardinality({p[1] : p \in SameBlockForTxStats})
            /\ r.spends.inputs_spend_in_same_block
                  = Cardinality(SameBlockForInputStats)
            /\ r.tx.tx_spending_newly_created_utxos
                  <= r.spends.inputs_spend_in_same_block
            /\ SameBlockForTxStats = SameBlockForInputStats
                  <=> SpentPrecedeSpenders

\* C26 witness: the first transaction after the coinbase spends an output
\* of the one after it, which spends an output of the coinbase: two
\* same-block inputs, one transaction spending a newly created UTXO
C26_Witness ==
    /\ SpendsDone
    /\ Len(stats_block.txdata) = 3
    /\ stats_block.txdata[2].input[1].txid = 3
    /\ stats_block.txdata[3].input[1].txid = 1
    /\ stats_state[1].tx.tx_spending_newly_created_utxos = 1
    /\ stats_state[1].spends.inputs_spend_in_same_block = 2

\* the non-coinbase inputs whose prevout is the anchor type
AnchorSpends ==
    {p \in NonCoinbaseAt(stats_block) :
        stats_block.txdata[p[1]].input[p[2]].prevout_type = "Anchor"}

\* C27: inputs_unknown is never negative in an emitted InputStats, as
\* every input with an anchor prevout was classified Unknown or P2a by the
\* first pass; inputs_p2a_dust <= inputs_p2a, and an anchor input is counted
\* as dust iff its prevout value is below 240 sat.
C27_UnknownNeverNegative ==
    SpendsDone =>
        LET r == stats_state[1]
        IN  /\ r.input["inputs_unknown"] >= 0
            /\ \A p \in AnchorSpends :
                  stats_block.txdata[p[1]].input[p[2]].in_type \in {"Unknown", "P2a"}
            /\ r.spends.inputs_p2a_dust <= r.input["inputs_p2a"]
            /\ r.spends.inputs_p2a_dust
                  = Cardinality({p \in AnchorSpends :
                       stats_block.txdata[p[1]].input[p[2]].prevout_value < 240})

\* C27, the part the code keeps: inputs_p2a counts the inputs with an
\* anchor prevout, inputs_p2a_dust those of them below 240 sat, and
\* inputs_unknown is the inputs classified Unknown or P2a less the inputs
\* with an anchor prevout, whatever these were classified as
C27_AnchorCounters ==
    SpendsDone =>
        LET r == stats_state[1]
            unknown == {p \in InputsAt(stats_block) :
                           stats_block.txdata[p[1]].input[p[2]].in_type
                               \in {"Unknown", "P2a"}}
        IN  /\ r.input["inputs_p2a"] = Cardinality(AnchorSpends)
            /\ r.input["inputs_unknown"]
                  = Cardinality(unknown) - Cardinality(AnchorSpends)
            /\ r.spends.inputs_p2a_dust <= r.input["inputs_p2a"]
            /\ r.spends.inputs_p2a_dust
                  = Cardinality({p \in AnchorSpends :
                       stats_block.txdata[p[1]].input[p[2]].prevout_value < 240})

\* C27: the emitted InputStats of a block whose one spending input has an
\* anchor prevout and was classified P2wpkh: inputs_unknown is -1
C27_NegativeUnknown ==
    /\ SpendsDone
    /\ stats_state[1].block.inputs = 2
    /\ stats_block.txdata[2].input[1].in_type = "P2wpkh"
    /\ stats_block.txdata[2].input[1].prevout_type = "Anchor"
    /\ stats_state[1].input["inputs_unknown"] = 0 - 1
    /\ stats_state[1].input["inputs_p2wpkh"] = 1
    /\ stats_state[1].input["inputs_p2a"] = 1

ScriptDone == stats_state # NoneVal

\* the signatures of the one input of the analysed block
BlockSigs == stats_block.txdata[1].input_infos[1].signature_info

EcdsaSigs == {k \in DOMAIN BlockSigs : BlockSigs[k].signature = "Ecdsa"}

\* C28: a block with an ECDSA signature shorter than 8 bytes makes the
\* analysis panic. For every other block sigs_ecdsa is the number of ECDSA
\* signatures (Schnorr ones add nothing) and equals strict + not strict
\* DER, the sum of the seven length buckets, low_r + high_r, low_s + high_s,
\* the sum of the four R/S counters, and sigs_sighashes; the six sighash
\* buckets sum to at most sigs_sighashes; pubkeys = compressed +
\* uncompressed, each the sum of its input and its output counter.
C28_ScriptPartitions ==
    ScriptDone =>
        LET r == stats_state[1]
            c == r.script
        IN  IF \E k \in EcdsaSigs : BlockSigs[k].length < 8
            THEN r.kind = "Panic"
            ELSE /\ r.kind = "Ok"
                 /\ c.sigs_ecdsa = Cardinality(EcdsaSigs)
                 /\ c.sigs_schnorr = Len(BlockSigs) - Cardinality(EcdsaSigs)
                 /\ c.sigs_ecdsa = c.sigs_ecdsa_strict_der + c.sigs_ecdsa_not_strict_der
                 /\ c.sigs_ecdsa = SumOver(LengthBuckets, c.length)
                 /\ c.sigs_ecdsa = c.sigs_ecdsa_low_r + c.sigs_ecdsa_high_r
                 /\ c.sigs_ecdsa = c.sigs_ecdsa_low_s + c.sigs_ecdsa_high_s
                 /\ c.sigs_ecdsa = c.sigs_ecdsa_low_rs + c.sigs_ecdsa_high_rs
                        + c.sigs_ecdsa_low_r_high_s + c.sigs_ecdsa_high_r_low_s
                 /\ c.sigs_ecdsa = c.sigs_sighashes
                 /\ SumOver(SighashBuckets, c.sighash) <= c.sigs_sighashes
                 /\ c.pubkeys = c.pubkeys_compressed + c.pubkeys_uncompressed
                 /\ c.pubkeys_compressed
                        = c.pubkeys_compressed_inputs + c.pubkeys_compressed_outputs
                 /\ c.pubkeys_uncompressed
                        = c.pubkeys_uncompressed_inputs + c.pubkeys_uncompressed_outputs

\* C28 witness: a Schnorr signature of 7 bytes and an ECDSA signature of 8
\* bytes with sighash byte 4 were analysed without panic; the ECDSA one is
\* in the first length bucket and in no sighash bucket
C28_Witness ==
    /\ ScriptDone
    /\ stats_state[1].kind = "Ok"
    /\ Len(BlockSigs) = 2
    /\ BlockSigs[1].signature = "Schnorr"
    /\ BlockSigs[1].length = 7
    /\ BlockSigs[2].length = 8
    /\ BlockSigs[2].sig_hash = 4
    /\ stats_state[1].script.sigs_ecdsa = 1
    /\ stats_state[1].script.sigs_sighashes = 1
    /\ stats_state[1].script.length["sigs_ecdsa_length_less_70byte"] = 1
    /\ SumOver(SighashBuckets, stats_state[1].script.sighash) = 0

\* C29: for a block of the coinbase alone FeerateStats::from_block returns
\* with every numeric field 0; for every block the samples are those of
\* the transactions after the coinbase: fee_sum and size_sum are their sums
\* and the averages divide by their number.
C29_CoinbaseOnlyFeerates ==
    FeerateDone =>
        LET f == stats_state[1]
            s == f.summary
            rest == 2..Len(stats_block.txdata)
            feeOf(i) == IF stats_block.txdata[i].fee = NoneVal THEN 0
                        ELSE stats_block.txdata[i].fee[1]
        IN  /\ Len(stats_block.txdata) = 1 =>
                  /\ s.fee_min = 0 /\ s.fee_max = 0 /\ s.fee_sum = 0
                  /\ s.size_min = 0 /\ s.size_max = 0 /\ s.size_sum = 0
                  /\ s.fee_avg.num = 0 /\ s.size_avg.num = 0
                  /\ s.feerate_avg.num = 0
                  /\ s.feerate_min.num = 0 /\ s.feerate_max.num = 0
                  /\ \A q \in {5, 10, 25, 35, 50, 65, 75, 90, 95} :
                        /\ s.fee_percentile[q] = [nan |-> FALSE, lo |-> 0, hi |-> 0]
                        /\ s.size_percentile[q] = [nan |-> FALSE, lo |-> 0, hi |-> 0]
                        /\ s.feerate_percentile[q] = [nan |-> FALSE, lo |-> 0, hi |-> 0]
                  /\ s.feerate_package = 0
                  /\ f.zero_fee_tx = 0 /\ f.below_1_sat_vbyte = 0
                  /\ \A k \in 1..10 : f.band[k] = 0
            /\ s.fee_sum = SumOver(rest, [i \in rest |-> feeOf(i)])
            /\ s.size_sum = SumOver(rest, [i \in rest |-> stats_block.txdata[i].size])
            /\ rest # {} =>
                  /\ s.fee_avg.den = Cardinality(rest)
                  /\ s.size_min = MinOf({stats_block.txdata[i].size : i \in rest})
                  /\ s.fee_max = MaxOf({feeOf(i) : i \in rest})

\* C29 witness: the statistics of the block of the coinbase alone
C29_Witness ==
    /\ FeerateDone
    /\ Len(stats_block.txdata) = 1
    /\ stats_state[1].summary.fee_sum = 0
    /\ stats_state[1].summary.size_max = 0
    /\ stats_state[1].summary.feerate_percentile[50].nan = FALSE

\* the heights of all insert_stats calls of the run, in call order
Batched == ConcatBatches(insert_log)

====
